---- MODULE Spec2Model ----
(***************************************************************************)
(* Engagement engine of the rettiwt backend: the tweet and user            *)
(* controllers over the document store.  Every request is a process that   *)
(* is suspended at each store access (await); a store access reads or      *)
(* updates one document atomically.                                        *)
(***************************************************************************)
EXTENDS Integers, Sequences, FiniteSets, Bags, TLC

\* ---- bounds of the model ------------------------------------------------
NumUsers == 2
MaxTweets == 2
NumProcs == 2
NumSockets == 3
MaxTrend == 3
MaxNow == 1
MaxRegister == 2
MaxEngage == 2
MaxFollow == 3
MaxCreate == 2
MaxSerial == 2
MaxSnippet == 1
MaxAll == 2
MaxRead == 3
MaxFaults == 1
MaxHashtagLen == 5
MaxHashtag == 1
MaxMention == 1
MaxPad == 1
MaxValidation == 1

\* ---- program constants ---------------------------------------------------
SnippetCut == 100
SnippetMaxLength == 100
ContentMaxLength == 280
ContentMinLength == 1
DefaultPage == 1
DefaultLimit == 10
TrendDays == 7
TrendLimit == 10
RecommendLimit == 5
RecommendExtra == 50
NoTweet == 0
NoUser == 0

Users == 1..NumUsers
TweetIds == 1..MaxTweets
Procs == 1..NumProcs
SocketIds == 1..NumSockets
\* an id of valid format that names no document of the store
GhostTweet == MaxTweets + 1
GhostUser == NumUsers + 1

Min(a, b) == IF a < b THEN a ELSE b

\* ---- strings: sequences of characters ------------------------------------
Text(n) == [i \in 1..n |-> "a"]
TextSp(n, k) == [i \in 1..n |-> IF i = k THEN " " ELSE "a"]
Ellipsis == <<".", ".", ".">>

RECURSIVE TrimStart(_)
TrimStart(s) ==
    IF s # <<>> /\ Head(s) = " " THEN TrimStart(Tail(s)) ELSE s

RECURSIVE TrimEnd(_)
TrimEnd(s) ==
    IF s # <<>> /\ s[Len(s)] = " " THEN TrimEnd(SubSeq(s, 1, Len(s) - 1)) ELSE s

Trim(s) == TrimEnd(TrimStart(s))

\* String.prototype.toLowerCase on the letters the model writes
ToLowerCase(c) ==
    CASE c = "T" -> "t"
      [] c = "U" -> "u"
      [] OTHER -> c

Lower(s) == [i \in 1..Len(s) |-> ToLowerCase(s[i])]

\* the class [\p{L}\p{N}_] of the hashtag regex and [a-zA-Z0-9_] of the mention
\* regex, on the characters the model writes
IsWord(c) == c \notin {" ", "#", "@"}

\* the longest run of word characters of s that starts at position from
WordRun(s, from) ==
    LET stops == {i \in from..Len(s) : ~IsWord(s[i])}
        last == IF stops = {} THEN Len(s)
                ELSE (CHOOSE i \in stops : \A j \in stops : i <= j) - 1
    IN SubSeq(s, from, last)

\* the capture groups of the successive matches of /<sign>(word+)/g in s: a
\* match starts at every sign that a word character follows
Matches(sign, s) ==
    LET starts == {i \in 1..Len(s) : s[i] = sign /\ i < Len(s) /\ IsWord(s[i + 1])}
        nth(k) == CHOOSE i \in starts : Cardinality({j \in starts : j <= i}) = k
    IN [k \in 1..Cardinality(starts) |-> WordRun(s, nth(k) + 1)]

\* while ((hashMatch = hashtagRegex.exec(this.content)) !== null)
\*     this.hashtags.push(hashMatch[1].toLowerCase())
ExtractHashtags(content) ==
    LET found == Matches("#", content) IN [i \in 1..Len(found) |-> Lower(found[i])]

\* potentialUsernames: the captures of the mention regex
PotentialUsernames(content) ==
    LET found == Matches("@", content) IN {found[i] : i \in 1..Len(found)}

\* the username of a registered user, and a name no user has
Username(u) == [i \in 1..u |-> "u"]

Range(s) == {s[i] : i \in 1..Len(s)}

\* content?.substring(0, 100) + (content?.length > 100 ? "..." : "")
Snippet(content) ==
    SubSeq(content, 1, Min(SnippetCut, Len(content)))
        \o (IF Len(content) > SnippetCut THEN Ellipsis ELSE <<>>)

\* ---- documents -----------------------------------------------------------
ZeroCount == [likes |-> 0, retweets |-> 0, replies |-> 0, quotes |-> 0]

NullTweet ==
    [exists |-> FALSE, id |-> NoTweet, content |-> <<>>, author |-> NoUser,
     likes |-> {}, retweets |-> {}, quotedTweet |-> NoTweet,
     inReplyTo |-> NoTweet, engagementCount |-> ZeroCount, hashtags |-> <<>>,
     mentions |-> {}, isDeleted |-> FALSE, impressions |-> 0, createdAt |-> 0]

NewTweet(id, content, author, quoted, replyTo, mentions) ==
    [NullTweet EXCEPT !.exists = TRUE, !.id = id, !.content = Trim(content),
                      !.author = author, !.quotedTweet = quoted,
                      !.inReplyTo = replyTo,
                      !.hashtags = ExtractHashtags(Trim(content)),
                      !.mentions = mentions]

\* the value of a path a document does not hold
Undefined == -1

\* the paths of the user schema that the requests write
UserPaths == {"following", "followers", "bookmarks", "isActive"}

\* a user as stored at registration: the schema declares no followerCount and
\* no followingCount, so a new document holds neither
NewUser == [following |-> {}, followers |-> {}, bookmarks |-> {}, isActive |-> TRUE,
            followerCount |-> Undefined, followingCount |-> Undefined]

\* {$inc: {path: n}} of User.findByIdAndUpdate: the update is cast by the strict
\* schema, which drops a path it does not declare; $inc of a path the document
\* does not hold starts from 0
Inc(user, path, n) ==
    IF path \in UserPaths
    THEN [user EXCEPT ![path] = (IF @ = Undefined THEN 0 ELSE @) + n]
    ELSE user

\* new Notification({recipient, sender, type, tweet, tweetSnippet}); the schema
\* setter trims the snippet
NewNotification(recipient, sender, type, tweet, snippet) ==
    [recipient |-> recipient, sender |-> sender, type |-> type, tweet |-> tweet,
     tweetSnippet |-> Trim(snippet), read |-> FALSE]

NoNotification == NewNotification(NoUser, NoUser, "none", NoTweet, <<>>)

\* validation run by notification.save(): tweetSnippet maxlength
NotificationValid(n) == Len(n.tweetSnippet) <= SnippetMaxLength

\* req.body of a registration: username and email
NoAccount == [username |-> <<>>, email |-> <<>>]

BlankBody ==
    [content |-> <<>>, inReplyToId |-> NoTweet, quotedTweetId |-> NoTweet]

\* the bearer token of a request, socket.handshake.auth.token or the
\* access_token cookie: absent, a token the verification rejects, or a token
\* signed for a user id
NoToken == [kind |-> "none", id |-> NoUser]

ValidToken(id) == [kind |-> "valid", id |-> id]

\* a request and the local variables of its handler
IdleReq ==
    [op |-> "none", pc |-> "idle", actor |-> NoUser, following |-> {},
     id |-> NoTweet, username |-> NoUser, body |-> BlankBody,
     tweet |-> NullTweet, updatedTweet |-> NullTweet,
     notification |-> NoNotification, parentTweetAuthorId |-> NoUser,
     quotedTweetAuthorId |-> NoUser, quotedTweetContent |-> <<>>,
     pending |-> {}, emitting |-> {}, failed |-> {}, trendsFailed |-> FALSE,
     page |-> 0, limit |-> 0, includeReplies |-> FALSE, result |-> <<>>,
     errors |-> {}, status |-> 0, message |-> "none", account |-> NoAccount,
     token |-> NoToken, rejects |-> "none",
     q |-> <<>>, type |-> "all", hashtags |-> <<>>, hashtagTotal |-> 0]

\* emitted: the events sent over the socket server; faulty: whether the store
\* and the socket server may fail the side effects of a request
VARIABLES users, tweets, notifications, reqs, lastResponse, issued, emitted, faulty

\* sockets: the connections of the socket server; connectedUsers: the Map of
\* user id to socket id, as a set of entries; now: the clock, in days;
\* accounts: the user documents of the registrations, in the order of their saves
VARIABLES sockets, connectedUsers, now, accounts

vars == <<users, tweets, notifications, reqs, lastResponse, issued, emitted, faulty,
          sockets, connectedUsers, now, accounts>>

\* what the handlers of the tweet, user and notification routes leave alone
apart == <<faulty, sockets, connectedUsers, now, accounts>>

\* io.to(room).emit(event, notification) / io.emit(event, {tweet})
Event(event, room, notification, tweet) ==
    [event |-> event, room |-> room, notification |-> notification, tweet |-> tweet]

\* the outcomes of a side effect: it succeeds, or throws when faults occur
Outcomes == IF faulty THEN BOOLEAN ELSE {TRUE}

InFlight(p) == reqs[p].pc # "idle"

AllQuiet == \A p \in Procs : ~InFlight(p)

\* the store lookup Tweet.findById(id)
FindById(id) == IF id \in TweetIds THEN tweets[id] ELSE NullTweet

\* variant: the catch block of a side effect passes the error on to next(error)
RespondWithRethrow(p, r, status, message) ==
    /\ reqs' = [reqs EXCEPT ![p] = IdleReq]
    /\ lastResponse' = [r EXCEPT !.pc = "done",
                                 !.status = IF r.failed # {} THEN 500 ELSE status,
                                 !.message = IF r.failed # {} THEN "ServerError" ELSE message]
    /\ UNCHANGED apart

\* res.status(status).json(...) / next(err): the handler returns; lastResponse
\* is the request answered last, with its response
RespondWith(p, r, status, message) ==
    /\ reqs' = [reqs EXCEPT ![p] = IdleReq]
    /\ lastResponse' = [r EXCEPT !.pc = "done", !.status = status,
                                 !.message = message]
    /\ UNCHANGED apart

Respond(p, status, message) == RespondWith(p, reqs[p], status, message)

\* the handler is suspended at its next await
Continue(p, r) ==
    /\ reqs' = [reqs EXCEPT ![p] = r]
    /\ UNCHANGED <<lastResponse, apart>>

\* ---- request entry: the protect middleware loads req.user -----------------
\* the request slots are interchangeable: a new request takes the first one
\* that is not in use
FirstFree(p) == ~InFlight(p) /\ \A q \in Procs : q < p => InFlight(q)

\* variant: a deactivated user still counts
StillExistsInactiveToo(id) == id \in Users

\* const user = await User.findById(decoded.id); if (!user || !user.isActive)
\* the token is turned away
StillExists(id) == id \in Users /\ users[id].isActive

\* protect with a token it lets through: req.user = user; next()
Protect(p, op, actor, id, username, body, first) ==
    /\ FirstFree(p)
    /\ StillExists(actor)
    /\ Continue(p, [IdleReq EXCEPT !.op = op, !.pc = first, !.actor = actor,
                                   !.token = ValidToken(actor),
                                   !.following = users[actor].following,
                                   !.id = id, !.username = username, !.body = body])
    /\ issued' = issued + 1
    /\ UNCHANGED <<users, tweets, notifications, emitted>>

\* a socket id that no connection has used yet
NoSocket == [state |-> "new", token |-> NoToken, user |-> NoUser, rooms |-> {}]

\* the process after start-up: no connection, the clock at 0, no registration
ServerStart ==
    /\ sockets = [s \in SocketIds |-> NoSocket]
    /\ connectedUsers = {}
    /\ now = 0
    /\ accounts = <<>>

\* the store after start-up: the registered users, no tweet, no notification
EmptyStore ==
    /\ users = [u \in Users |-> NewUser]
    /\ tweets = [t \in TweetIds |-> NullTweet]
    /\ notifications = EmptyBag
    /\ reqs = [p \in Procs |-> IdleReq]
    /\ lastResponse = IdleReq
    /\ issued = 0
    /\ emitted = {}
    /\ faulty = FALSE
    /\ ServerStart

\* ---- notification fan-out of one recipient --------------------------------
\* await notification.save(): the document is persisted when it passes the
\* schema validation, otherwise save() rejects and the catch block logs it
Stored(n, ok) == ok /\ NotificationValid(n)

SaveNotification(n, ok) ==
    IF Stored(n, ok)
    THEN notifications' = notifications (+) SetToBag({n})
    ELSE notifications' = notifications

\* the handler local after a side effect for notification n: a failure is
\* caught and logged
Caught(r, n, ok) == IF ok THEN r ELSE [r EXCEPT !.failed = @ \cup {n}]

\* variant: the emit goes to the room of the sender of the notification
PushToSender(room, n, ok) ==
    emitted' = IF ok THEN emitted \cup {Event("notification:new", n.sender, n, n.tweet)}
               ELSE emitted

\* variant: the emit is put off with setImmediate and has not run at the response
PushDeferred(room, n, ok) == emitted' = emitted

\* io.to(room).emit("notification:new", populatedNotification), unless the
\* populate read or getIoInstance() throws
Push(room, n, ok) ==
    emitted' = IF ok THEN emitted \cup {Event("notification:new", room, n, n.tweet)}
               ELSE emitted

\* ---- likeTweet / retweetTweet ---------------------------------------------
\* variant: includes() compares the ids by reference and finds nobody
AlreadyInNobody(tweet, field, user) == FALSE

\* tweet.likes.includes(currentUser._id)
AlreadyIn(tweet, field, user) == user \in tweet[field]

\* variant: the ids are compared as objects, which are never the same
NotOwnTweetAlways(tweet, user) == TRUE

\* updatedTweet.author.toString() !== currentUser._id.toString()
NotOwnTweet(tweet, user) == tweet.author # user

\* const tweet = await Tweet.findById(id), then the checks on it
AddFind(p, op, field) ==
    /\ reqs[p].op = op
    /\ reqs[p].pc = "find"
    /\ LET tweet == FindById(reqs[p].id) IN
         IF ~tweet.exists \/ tweet.isDeleted
         THEN Respond(p, 404, "NotFound")
         ELSE IF AlreadyIn(tweet, field, reqs[p].actor)
         THEN Respond(p, 400, "AlreadyDone")
         ELSE Continue(p, [reqs[p] EXCEPT !.pc = "update", !.tweet = tweet])
    /\ UNCHANGED <<users, tweets, notifications, issued, emitted>>

\* findByIdAndUpdate(id, {$addToSet: {field: user}, $inc: {count: 1}}, {new: true})
AddToSetAndInc(id, field, user) ==
    [tweets EXCEPT ![id][field] = @ \cup {user},
                   ![id].engagementCount[field] = @ + 1]

\* the update, and on its result: the snippet, new Notification({...}) and the
\* call of notification.save(), or the response when the tweet is the actor's
AddUpdate(p, op, field, type) ==
    /\ reqs[p].op = op
    /\ reqs[p].pc = "update"
    /\ tweets' = AddToSetAndInc(reqs[p].id, field, reqs[p].actor)
    /\ LET updatedTweet == tweets'[reqs[p].id] IN
         IF NotOwnTweet(updatedTweet, reqs[p].actor)
         THEN Continue(p, [reqs[p] EXCEPT
                  !.pc = "notify", !.updatedTweet = updatedTweet,
                  !.notification =
                      NewNotification(updatedTweet.author, reqs[p].actor, type,
                                      updatedTweet.id, Snippet(updatedTweet.content))])
         ELSE Respond(p, 200, "ok")
    /\ UNCHANGED <<users, notifications, issued, emitted>>

\* await notification.save(); a rejected save is caught and the handler goes on
\* to its success response
AddNotify(p, op) ==
    /\ reqs[p].op = op
    /\ reqs[p].pc = "notify"
    /\ \E ok \in Outcomes :
          /\ SaveNotification(reqs[p].notification, ok)
          /\ IF Stored(reqs[p].notification, ok)
             THEN Continue(p, [reqs[p] EXCEPT !.pc = "emit"])
             ELSE RespondWith(p, Caught(reqs[p], reqs[p].notification, FALSE), 200, "ok")
    /\ UNCHANGED <<users, tweets, issued, emitted>>

\* Notification.findById(...).populate(...); io.to(author).emit(...); res.status(200)
AddEmit(p, op) ==
    /\ reqs[p].op = op
    /\ reqs[p].pc = "emit"
    /\ \E ok \in Outcomes :
          /\ Push(reqs[p].updatedTweet.author, reqs[p].notification, ok)
          /\ RespondWith(p, Caught(reqs[p], reqs[p].notification, ok), 200, "ok")
    /\ UNCHANGED <<users, tweets, notifications, issued>>

LikeTweetFind(p) == AddFind(p, "likeTweet", "likes")
LikeTweetUpdate(p) == AddUpdate(p, "likeTweet", "likes", "like")
LikeTweetNotify(p) == AddNotify(p, "likeTweet")
LikeTweetEmit(p) == AddEmit(p, "likeTweet")

RetweetTweetFind(p) == AddFind(p, "retweetTweet", "retweets")
RetweetTweetUpdate(p) == AddUpdate(p, "retweetTweet", "retweets", "retweet")
RetweetTweetNotify(p) == AddNotify(p, "retweetTweet")
RetweetTweetEmit(p) == AddEmit(p, "retweetTweet")

\* ---- unlikeTweet / undoRetweet --------------------------------------------
RemoveFind(p, op, field) ==
    /\ reqs[p].op = op
    /\ reqs[p].pc = "find"
    /\ LET tweet == FindById(reqs[p].id) IN
         IF ~tweet.exists \/ tweet.isDeleted
         THEN Respond(p, 404, "NotFound")
         ELSE IF ~AlreadyIn(tweet, field, reqs[p].actor)
         THEN Respond(p, 400, "NotDone")
         ELSE Continue(p, [reqs[p] EXCEPT !.pc = "update", !.tweet = tweet])
    /\ UNCHANGED <<users, tweets, notifications, issued, emitted>>

\* variant: the update pulls the user and leaves out the $inc
PullOnly(id, field, user) ==
    [tweets EXCEPT ![id][field] = @ \ {user}]

\* findByIdAndUpdate(id, {$pull: {field: user}, $inc: {count: -1}})
PullAndDec(id, field, user) ==
    [tweets EXCEPT ![id][field] = @ \ {user},
                   ![id].engagementCount[field] = @ - 1]

RemoveUpdate(p, op, field) ==
    /\ reqs[p].op = op
    /\ reqs[p].pc = "update"
    /\ tweets' = PullAndDec(reqs[p].id, field, reqs[p].actor)
    /\ Respond(p, 200, "ok")
    /\ UNCHANGED <<users, notifications, issued, emitted>>

UnlikeTweetFind(p) == RemoveFind(p, "unlikeTweet", "likes")
UnlikeTweetUpdate(p) == RemoveUpdate(p, "unlikeTweet", "likes")
UndoRetweetFind(p) == RemoveFind(p, "undoRetweet", "retweets")
UndoRetweetUpdate(p) == RemoveUpdate(p, "undoRetweet", "retweets")

\* ---- register ------------------------------------------------------------------
GmailDomain == <<"g", "m", "a", "i", "l", ".", "c", "o", "m">>

\* localPart.replace(/\./g, "")
RemoveDots(s) == SelectSeq(s, LAMBDA c : c # ".")

\* normalizeGmail: email.split("@") has two parts and the second is gmail.com
\* in any case: the dots of the first part are removed
NormalizeGmail(email) ==
    LET signs == {i \in 1..Len(email) : email[i] = "@"} IN
    IF Cardinality(signs) # 1 THEN email
    ELSE LET at == CHOOSE i \in signs : TRUE
             local == SubSeq(email, 1, at - 1)
             domain == SubSeq(email, at + 1, Len(email))
         IN IF Lower(domain) = GmailDomain
            THEN RemoveDots(local) \o <<"@">> \o domain
            ELSE email

\* the setters of the email path: set: normalizeGmail, lowercase, trim; they
\* also cast the email of a query filter
EmailSetters(email) == Trim(Lower(NormalizeGmail(email)))

\* new User({username, email, ...}): the paths of the document the unique
\* indexes are on
NewAccount(body) ==
    [username |-> Trim(body.username), email |-> EmailSetters(body.email)]

\* the users who registered before: user u has the name Username(u) and an
\* address of its own
Identity(u) ==
    [username |-> Username(u), email |-> Username(u) \o <<"@", "x", ".", "i", "o">>]

\* the User collection: the users of before and the documents saved since
Registered == {Identity(u) : u \in Users} \cup Range(accounts)

\* User.findOne({$or: [{email: normalizedEmailForCheck}, {username}]})
FindOneByEmailOrUsername(email, username) ==
    {doc \in Registered : doc.email = EmailSetters(email) \/ doc.username = Trim(username)}

\* variant: the schema declares no unique index
DuplicateKeyNever(doc) == FALSE

\* the unique indexes of username and email: save() rejects with code 11000
DuplicateKey(doc) ==
    \E other \in Registered : other.email = doc.email \/ other.username = doc.username

\* POST /register: the lookup of an existing user, 409 when there is one
RegisterFind(p) ==
    /\ reqs[p].op = "register"
    /\ reqs[p].pc = "find"
    /\ LET normalizedEmailForCheck == NormalizeGmail(reqs[p].account.email)
           existingUser == FindOneByEmailOrUsername(normalizedEmailForCheck,
                                                    reqs[p].account.username)
       IN IF existingUser # {}
          THEN Respond(p, 409, "Conflict")
          ELSE Continue(p, [reqs[p] EXCEPT !.pc = "save"])
    /\ UNCHANGED <<users, tweets, notifications, issued, emitted>>

\* await newUser.save(): a duplicate key error is answered 409 by the catch
\* block, otherwise the document is stored and the answer is 201
RegisterSave(p) ==
    /\ reqs[p].op = "register"
    /\ reqs[p].pc = "save"
    /\ LET newUser == NewAccount(reqs[p].account) IN
         IF DuplicateKey(newUser)
         THEN Respond(p, 409, "Conflict")
         ELSE /\ accounts' = Append(accounts, newUser)
              /\ reqs' = [reqs EXCEPT ![p] = IdleReq]
              /\ lastResponse' = [reqs[p] EXCEPT !.pc = "done", !.status = 201,
                                                 !.message = "ok"]
              /\ UNCHANGED <<faulty, sockets, connectedUsers, now>>
    /\ UNCHANGED <<users, tweets, notifications, issued, emitted>>

StartRegister(p, body) ==
    /\ FirstFree(p)
    /\ Continue(p, [IdleReq EXCEPT !.op = "register", !.pc = "find", !.account = body])
    /\ issued' = issued + 1
    /\ UNCHANGED <<users, tweets, notifications, emitted>>

\* ---- getCurrentUser / logout ---------------------------------------------------
\* getCurrentUser: User.findById(req.user._id) with its populates, then 200
GetCurrentUser(p) ==
    /\ reqs[p].op = "getCurrentUser"
    /\ reqs[p].pc = "find"
    /\ Respond(p, 200, "ok")
    /\ UNCHANGED <<users, tweets, notifications, issued, emitted>>

\* logout has no await: it answers 200 when protect calls it
Logout(p, actor) ==
    /\ FirstFree(p)
    /\ StillExists(actor)
    /\ RespondWith(p, [IdleReq EXCEPT !.op = "logout", !.actor = actor,
                                      !.token = ValidToken(actor)], 200, "ok")
    /\ issued' = issued + 1
    /\ UNCHANGED <<users, tweets, notifications, emitted>>

AuthOps == {"getCurrentUser", "logout"}

\* ---- socket connections --------------------------------------------------------
store == <<users, tweets, notifications, reqs, lastResponse, issued, emitted, faulty>>

Handshakes ==
    {NoToken, [kind |-> "invalid", id |-> NoUser]}
        \cup {[kind |-> "valid", id |-> u] : u \in Users \cup {GhostUser}}

\* User.findById(decoded.id).select("_id username").lean()
FindUserById(id) == IF id \in Users THEN id ELSE NoUser

\* variant: the middleware does not test the user it looked up
AcceptsAnyone(user) == TRUE

\* if (!user) return next(new Error("Authentication error: User not found."))
Accepts(user) == user # NoUser

\* io.use: a connection without a token or with a token jwt.verify throws on is
\* refused; otherwise the middleware awaits the lookup of the user. Socket ids
\* are taken in order.
SocketHandshake(s, token) ==
    /\ sockets[s].state = "new"
    /\ \A q \in SocketIds : q < s => sockets[q].state # "new"
    /\ sockets' = [sockets EXCEPT ![s] =
                      [@ EXCEPT !.token = token,
                                !.state = IF token.kind = "valid" THEN "lookup"
                                          ELSE "rejected"]]
    /\ UNCHANGED <<store, connectedUsers, now, accounts>>

\* connectedUsers.set(userId, socket.id)
MapSet(map, userId, s) == {entry \in map : entry[1] # userId} \cup {<<userId, s>>}

\* the user is looked up; socket.user = user and next(), and the connection
\* handler joins the room of the user id and registers the socket
SocketLookup(s) ==
    /\ sockets[s].state = "lookup"
    /\ LET user == FindUserById(sockets[s].token.id) IN
         IF ~Accepts(user)
         THEN /\ sockets' = [sockets EXCEPT ![s].state = "rejected"]
              /\ UNCHANGED connectedUsers
         ELSE /\ sockets' = [sockets EXCEPT ![s].state = "connected",
                                            ![s].user = user,
                                            ![s].rooms = @ \cup {user}]
              /\ connectedUsers' = MapSet(connectedUsers, user, s)
    /\ UNCHANGED <<store, now, accounts>>

\* socket.on("disconnect"): the entry of connectedUsers whose value is the
\* socket id is deleted; the socket server takes the socket out of its rooms
SocketDisconnect(s) ==
    /\ sockets[s].state = "connected"
    /\ sockets' = [sockets EXCEPT ![s].state = "closed", ![s].rooms = {}]
    /\ connectedUsers' = {entry \in connectedUsers : entry[2] # s}
    /\ UNCHANGED <<store, now, accounts>>

\* ---- markNotificationRead / markAllNotificationsRead ---------------------------
\* the number of stored documents that equal n
Copies(B, n) == IF BagIn(n, B) THEN B[n] ELSE 0

MarkedRead(n) == [n EXCEPT !.read = TRUE]

\* variant: the filter has no recipient condition
AnyUnread(n, userId) == ~n.read

\* the filter {recipient: userId, read: false}
OwnUnread(n, userId) == n.recipient = userId /\ ~n.read

\* Notification.findOneAndUpdate({_id: id, recipient: userId, read: false},
\* {read: true}): the document n the id names is updated when it passes the filter
FindOneAndMark(B, n, userId) ==
    IF BagIn(n, B) /\ OwnUnread(n, userId)
    THEN (B (-) SetToBag({n})) (+) SetToBag({MarkedRead(n)})
    ELSE B

\* Notification.updateMany({recipient: userId, read: false}, {read: true})
UpdateManyMark(B, userId) ==
    LET after(n) == IF OwnUnread(n, userId) THEN MarkedRead(n) ELSE n
        T == {after(n) : n \in BagToSet(B)}
    IN [m \in T |->
          (IF OwnUnread(m, userId) THEN 0 ELSE Copies(B, m))
            + (IF m.read /\ OwnUnread([m EXCEPT !.read = FALSE], userId)
               THEN Copies(B, [m EXCEPT !.read = FALSE]) ELSE 0)]

\* the handler answers 200 whether or not a document was updated
MarkNotificationRead(p) ==
    /\ reqs[p].op = "markNotificationRead"
    /\ reqs[p].pc = "update"
    /\ notifications' = FindOneAndMark(notifications, reqs[p].notification, reqs[p].actor)
    /\ Respond(p, 200, "ok")
    /\ UNCHANGED <<users, tweets, issued, emitted>>

MarkAllNotificationsRead(p) ==
    /\ reqs[p].op = "markAllNotificationsRead"
    /\ reqs[p].pc = "update"
    /\ notifications' = UpdateManyMark(notifications, reqs[p].actor)
    /\ Respond(p, 200, "ok")
    /\ UNCHANGED <<users, tweets, issued, emitted>>

MarkOps == {"markNotificationRead", "markAllNotificationsRead"}

\* router.use(protect), PATCH /:id/read and POST /read-all; n is the document
\* req.params.id names, NoNotification when it names none
StartMark(p, op, actor, n) ==
    /\ FirstFree(p)
    /\ actor \in Users
    /\ Continue(p, [IdleReq EXCEPT !.op = op, !.pc = "update", !.actor = actor,
                                   !.following = users[actor].following,
                                   !.notification = n])
    /\ issued' = issued + 1
    /\ UNCHANGED <<users, tweets, notifications, emitted>>

MarkStep(p) == MarkNotificationRead(p) \/ MarkAllNotificationsRead(p)

\* ---- bookmarkTweet / unbookmarkTweet ------------------------------------------
\* variant: the lookup does not ask for isDeleted: false
FindLiveOrDeleted(id) == FindById(id)

\* Tweet.findOne({_id: id, isDeleted: false})
FindLive(id) == IF FindById(id).isDeleted THEN NullTweet ELSE FindById(id)

BookmarkTweetFind(p) ==
    /\ reqs[p].op = "bookmarkTweet"
    /\ reqs[p].pc = "find"
    /\ LET tweet == FindLive(reqs[p].id) IN
         IF ~tweet.exists
         THEN Respond(p, 404, "NotFound")
         ELSE Continue(p, [reqs[p] EXCEPT !.pc = "update", !.tweet = tweet])
    /\ UNCHANGED <<users, tweets, notifications, issued, emitted>>

\* User.findByIdAndUpdate(userId, {$addToSet: {bookmarks: id}}, {new: true}),
\* then res.status(200): the user of req.user exists
BookmarkTweetUpdate(p) ==
    /\ reqs[p].op = "bookmarkTweet"
    /\ reqs[p].pc = "update"
    /\ users' = [users EXCEPT ![reqs[p].actor].bookmarks = @ \cup {reqs[p].id}]
    /\ Respond(p, 200, "ok")
    /\ UNCHANGED <<tweets, notifications, issued, emitted>>

\* User.findByIdAndUpdate(userId, {$pull: {bookmarks: id}}, {new: true}), then
\* res.status(200); the handler does not look the tweet up
UnbookmarkTweetUpdate(p) ==
    /\ reqs[p].op = "unbookmarkTweet"
    /\ reqs[p].pc = "update"
    /\ users' = [users EXCEPT ![reqs[p].actor].bookmarks = @ \ {reqs[p].id}]
    /\ Respond(p, 200, "ok")
    /\ UNCHANGED <<tweets, notifications, issued, emitted>>

BookmarkOps == {"bookmarkTweet", "unbookmarkTweet"}

StartBookmark(p, op, actor, id) ==
    Protect(p, op, actor, id, NoUser, BlankBody,
            IF op = "bookmarkTweet" THEN "find" ELSE "update")

BookmarkStep(p) ==
    \/ BookmarkTweetFind(p)
    \/ BookmarkTweetUpdate(p)
    \/ UnbookmarkTweetUpdate(p)

\* ---- deleteTweet ------------------------------------------------------------
\* variant: the handler does not compare tweet.author with req.user._id
DeleteTweetFindAnyone(p) ==
    /\ reqs[p].op = "deleteTweet"
    /\ reqs[p].pc = "find"
    /\ LET tweet == FindById(reqs[p].id) IN
         IF ~tweet.exists
         THEN Respond(p, 404, "NotFound")
         ELSE Continue(p, [reqs[p] EXCEPT !.pc = "update", !.tweet = tweet])
    /\ UNCHANGED <<users, tweets, notifications, issued, emitted>>

\* variant: a tweet that is deleted already is not found
DeleteTweetFindLive(p) ==
    /\ reqs[p].op = "deleteTweet"
    /\ reqs[p].pc = "find"
    /\ LET tweet == FindById(reqs[p].id) IN
         IF ~tweet.exists \/ tweet.isDeleted
         THEN Respond(p, 404, "NotFound")
         ELSE IF tweet.author # reqs[p].actor
         THEN Respond(p, 403, "Forbidden")
         ELSE Continue(p, [reqs[p] EXCEPT !.pc = "update", !.tweet = tweet])
    /\ UNCHANGED <<users, tweets, notifications, issued, emitted>>

DeleteTweetFind(p) ==
    /\ reqs[p].op = "deleteTweet"
    /\ reqs[p].pc = "find"
    /\ LET tweet == FindById(reqs[p].id) IN
         IF ~tweet.exists
         THEN Respond(p, 404, "NotFound")
         ELSE IF tweet.author # reqs[p].actor
         THEN Respond(p, 403, "Forbidden")
         ELSE Continue(p, [reqs[p] EXCEPT !.pc = "update", !.tweet = tweet])
    /\ UNCHANGED <<users, tweets, notifications, issued, emitted>>

\* await Tweet.findByIdAndUpdate(id, { isDeleted: true })
\* variant: the delete also takes the reply back from the counter of its parent
DeleteTweetUpdateCascade(p) ==
    /\ reqs[p].op = "deleteTweet"
    /\ reqs[p].pc = "update"
    /\ LET parent == tweets[reqs[p].id].inReplyTo
           deleted == [tweets EXCEPT ![reqs[p].id].isDeleted = TRUE]
       IN tweets' = IF parent \in TweetIds
                    THEN [deleted EXCEPT ![parent].engagementCount.replies = @ - 1]
                    ELSE deleted
    /\ Respond(p, 200, "ok")
    /\ UNCHANGED <<users, notifications, issued, emitted>>

DeleteTweetUpdate(p) ==
    /\ reqs[p].op = "deleteTweet"
    /\ reqs[p].pc = "update"
    /\ tweets' = [tweets EXCEPT ![reqs[p].id].isDeleted = TRUE]
    /\ Respond(p, 200, "ok")
    /\ UNCHANGED <<users, notifications, issued, emitted>>

AddOps == {"likeTweet", "retweetTweet"}

EngageOps == AddOps \cup {"unlikeTweet", "undoRetweet", "deleteTweet"}

StartEngage(p, op, actor, id) ==
    Protect(p, op, actor, id, NoUser, BlankBody, "find")

AddStep(p) ==
    \/ LikeTweetFind(p)
    \/ LikeTweetUpdate(p)
    \/ LikeTweetNotify(p)
    \/ LikeTweetEmit(p)
    \/ RetweetTweetFind(p)
    \/ RetweetTweetUpdate(p)
    \/ RetweetTweetNotify(p)
    \/ RetweetTweetEmit(p)

RemoveStep(p) ==
    \/ UnlikeTweetFind(p)
    \/ UnlikeTweetUpdate(p)
    \/ UndoRetweetFind(p)
    \/ UndoRetweetUpdate(p)
    \/ DeleteTweetFind(p)
    \/ DeleteTweetUpdate(p)

EngageStep(p) == AddStep(p) \/ RemoveStep(p)

\* ---- followUser / unfollowUser ---------------------------------------------
\* User.findOne({ username })
FindUser(username) == IF username \in Users THEN username ELSE NoUser

\* currentUser.following.includes(userIdToFollow): req.user is the document the
\* protect middleware loaded when the request came in
FollowsAlready(following, target) == target \in following

\* variant: the ids are compared as objects, which are never the same
IsSelfNever(target, user) == FALSE

\* userIdToFollow.toString() === currentUser._id.toString()
IsSelf(target, user) == target = user

FollowUserFind(p) ==
    /\ reqs[p].op = "followUser"
    /\ reqs[p].pc = "find"
    /\ LET userIdToFollow == FindUser(reqs[p].username) IN
         IF userIdToFollow = NoUser
         THEN Respond(p, 404, "NotFound")
         ELSE IF IsSelf(userIdToFollow, reqs[p].actor)
         THEN Respond(p, 400, "InvalidOperation")
         ELSE IF FollowsAlready(reqs[p].following, userIdToFollow)
         THEN Respond(p, 400, "AlreadyDone")
         ELSE Continue(p, [reqs[p] EXCEPT !.pc = "update",
                                          !.pending = {"following", "followers"}])
    /\ UNCHANGED <<users, tweets, notifications, issued, emitted>>

\* the two updates of Promise.all are separate store operations, applied in
\* either order; when both are done the handler builds the follow notification
\* and calls notification.save()
FollowSettled(r, side) ==
    IF r.pending = {side}
    THEN [r EXCEPT !.pending = {}, !.pc = "notify",
                   !.notification =
                       NewNotification(r.username, r.actor, "follow", NoTweet, <<>>)]
    ELSE [r EXCEPT !.pending = @ \ {side}]

\* User.findByIdAndUpdate(currentUser._id, {$addToSet: {following: userIdToFollow}, ...})
FollowUserUpdateFollowing(p) ==
    /\ reqs[p].op = "followUser"
    /\ reqs[p].pc = "update"
    /\ "following" \in reqs[p].pending
    /\ users' = [users EXCEPT ![reqs[p].actor] =
                     Inc([@ EXCEPT !.following = @ \cup {reqs[p].username}],
                         "followingCount", 1)]
    /\ Continue(p, FollowSettled(reqs[p], "following"))
    /\ UNCHANGED <<tweets, notifications, issued, emitted>>

\* User.findByIdAndUpdate(userIdToFollow, {$addToSet: {followers: currentUser._id}, ...})
FollowUserUpdateFollowers(p) ==
    /\ reqs[p].op = "followUser"
    /\ reqs[p].pc = "update"
    /\ "followers" \in reqs[p].pending
    /\ users' = [users EXCEPT ![reqs[p].username] =
                     Inc([@ EXCEPT !.followers = @ \cup {reqs[p].actor}],
                         "followerCount", 1)]
    /\ Continue(p, FollowSettled(reqs[p], "followers"))
    /\ UNCHANGED <<tweets, notifications, issued, emitted>>

\* await notification.save()
FollowUserNotify(p) ==
    /\ reqs[p].op = "followUser"
    /\ reqs[p].pc = "notify"
    /\ \E ok \in Outcomes :
          /\ SaveNotification(reqs[p].notification, ok)
          /\ IF Stored(reqs[p].notification, ok)
             THEN Continue(p, [reqs[p] EXCEPT !.pc = "emit"])
             ELSE RespondWith(p, Caught(reqs[p], reqs[p].notification, FALSE), 200, "ok")
    /\ UNCHANGED <<users, tweets, issued, emitted>>

\* notification:new to the followed user, user:follow to the actor, res.status(200)
FollowUserEmit(p) ==
    /\ reqs[p].op = "followUser"
    /\ reqs[p].pc = "emit"
    /\ \E ok \in Outcomes :
          /\ Push(reqs[p].username, reqs[p].notification, ok)
          /\ RespondWith(p, Caught(reqs[p], reqs[p].notification, ok), 200, "ok")
    /\ UNCHANGED <<users, tweets, notifications, issued>>

UnfollowUserFind(p) ==
    /\ reqs[p].op = "unfollowUser"
    /\ reqs[p].pc = "find"
    /\ LET targetUser == FindUser(reqs[p].username) IN
         IF targetUser = NoUser
         THEN Respond(p, 404, "NotFound")
         ELSE IF ~FollowsAlready(reqs[p].following, targetUser)
         THEN Respond(p, 400, "NotDone")
         ELSE Continue(p, [reqs[p] EXCEPT !.pc = "update",
                                          !.pending = {"following", "followers"}])
    /\ UNCHANGED <<users, tweets, notifications, issued, emitted>>

UnfollowSettled(r, side) ==
    IF r.pending = {side}
    THEN [r EXCEPT !.pending = {}, !.pc = "emit"]
    ELSE [r EXCEPT !.pending = @ \ {side}]

\* User.findByIdAndUpdate(currentUser._id, {$pull: {following: targetUser._id}})
UnfollowUserUpdateFollowing(p) ==
    /\ reqs[p].op = "unfollowUser"
    /\ reqs[p].pc = "update"
    /\ "following" \in reqs[p].pending
    /\ users' = [users EXCEPT ![reqs[p].actor].following = @ \ {reqs[p].username}]
    /\ Continue(p, UnfollowSettled(reqs[p], "following"))
    /\ UNCHANGED <<tweets, notifications, issued, emitted>>

\* User.findByIdAndUpdate(targetUser._id, {$pull: {followers: currentUser._id}})
UnfollowUserUpdateFollowers(p) ==
    /\ reqs[p].op = "unfollowUser"
    /\ reqs[p].pc = "update"
    /\ "followers" \in reqs[p].pending
    /\ users' = [users EXCEPT ![reqs[p].username].followers = @ \ {reqs[p].actor}]
    /\ Continue(p, UnfollowSettled(reqs[p], "followers"))
    /\ UNCHANGED <<tweets, notifications, issued, emitted>>

\* user:unfollow to the actor, res.status(200)
UnfollowUserEmit(p) ==
    /\ reqs[p].op = "unfollowUser"
    /\ reqs[p].pc = "emit"
    /\ Respond(p, 200, "ok")
    /\ UNCHANGED <<users, tweets, notifications, issued, emitted>>

FollowOps == {"followUser", "unfollowUser"}

StartFollow(p, op, actor, username) ==
    Protect(p, op, actor, NoTweet, username, BlankBody, "find")

FollowStep(p) ==
    \/ FollowUserFind(p)
    \/ FollowUserUpdateFollowing(p)
    \/ FollowUserUpdateFollowers(p)
    \/ FollowUserNotify(p)
    \/ FollowUserEmit(p)
    \/ UnfollowUserFind(p)
    \/ UnfollowUserUpdateFollowing(p)
    \/ UnfollowUserUpdateFollowers(p)
    \/ UnfollowUserEmit(p)

\* ---- createTweet ------------------------------------------------------------
\* createTweetValidation: body("content").trim().isLength({min: 1, max: 280})
\* variant: the validator chain without its trim()
ContentAcceptedUntrimmed(content) ==
    Len(content) >= ContentMinLength /\ Len(content) <= ContentMaxLength

ContentAccepted(content) ==
    Len(Trim(content)) >= ContentMinLength /\ Len(Trim(content)) <= ContentMaxLength

\* the schema of the tweet: content required, trimmed, at most 280 characters
TweetValid(content) ==
    Len(Trim(content)) >= 1 /\ Len(Trim(content)) <= ContentMaxLength

\* variant: every token is taken for the user it could name, without the query
ResolveMentionsUnchecked(names) ==
    {Len(name) : name \in names}

\* the pre-save hook keeps the ids of the users whose username matches a token
\* User.find({username: {$in: names.map((name) => new RegExp(`^${name}$`, "i"))}})
ResolveMentions(names) ==
    {u \in Users : \E name \in names : Lower(name) = Lower(Username(u))}

FreeIds == {t \in TweetIds : ~tweets[t].exists}

NextId == CHOOSE t \in FreeIds : \A u \in FreeIds : t <= u

\* mentionedUserId.toString() === currentUser._id.toString(): skipped
MentionRecipients(mentions, user) == mentions \ {user}

\* if (tweet.mentions && tweet.mentions.length > 0): every mentioned user other
\* than the author gets a notification built and its save() called
GoMentions(r) ==
    LET recipients == MentionRecipients(r.tweet.mentions, r.actor) IN
    [r EXCEPT !.pc = IF recipients = {} THEN "populate" ELSE "mentions",
              !.pending = {NewNotification(m, r.actor, "mention", r.tweet.id,
                                           Snippet(r.tweet.content)) : m \in recipients}]

\* parentTweetAuthorId && parentTweetAuthorId.toString() !== currentUser._id.toString()
NotifiesAuthor(authorId, user) == authorId # NoUser /\ authorId # user

\* if (quotedTweetId)
GoQuote(r) ==
    IF r.body.quotedTweetId # NoTweet THEN [r EXCEPT !.pc = "incQuotes"] ELSE GoMentions(r)

\* if (inReplyToId)
GoReply(r) ==
    IF r.body.inReplyToId # NoTweet THEN [r EXCEPT !.pc = "incReplies"] ELSE GoQuote(r)

\* createTweetValidation and handleValidationErrors, then
\* let tweet = new Tweet({...}); await tweet.save()
CreateTweetSave(p) ==
    /\ reqs[p].op = "createTweet"
    /\ reqs[p].pc = "save"
    /\ IF ~ContentAccepted(reqs[p].body.content)
       THEN /\ RespondWith(p, [reqs[p] EXCEPT !.errors = {"content"}],
                           422, "ValidationFailed")
            /\ UNCHANGED tweets
       ELSE IF ~TweetValid(reqs[p].body.content)
       THEN /\ Respond(p, 500, "ValidationError")
            /\ UNCHANGED tweets
       ELSE /\ FreeIds # {}
            /\ tweets' = [tweets EXCEPT ![NextId] =
                            [NewTweet(NextId, reqs[p].body.content, reqs[p].actor,
                                      reqs[p].body.quotedTweetId, reqs[p].body.inReplyToId,
                                      ResolveMentions(
                                          PotentialUsernames(Trim(reqs[p].body.content))))
                               EXCEPT !.createdAt = now]]
            /\ Continue(p, [reqs[p] EXCEPT !.pc = "refetch", !.id = NextId])
    /\ UNCHANGED <<users, notifications, issued, emitted>>

\* the store operation the handler awaits at r.pc rejects: the rejection is
\* thrown into the try block of the handler, whose catch calls next(error)
Rejected(r) == r.rejects = r.pc

\* tweet = await Tweet.findById(tweet._id).lean()
CreateTweetRefetch(p) ==
    /\ reqs[p].op = "createTweet"
    /\ reqs[p].pc = "refetch"
    /\ LET tweet == FindById(reqs[p].id) IN
         IF Rejected(reqs[p])
         THEN Respond(p, 500, "ServerError")
         ELSE IF ~tweet.exists
         THEN Respond(p, 500, "RefetchFailed")
         ELSE Continue(p, GoReply([reqs[p] EXCEPT !.tweet = tweet]))
    /\ UNCHANGED <<users, tweets, notifications, issued, emitted>>

\* Tweet.findByIdAndUpdate(inReplyToId, {$inc: {"engagementCount.replies": 1}})
CreateTweetIncReplies(p) ==
    /\ reqs[p].op = "createTweet"
    /\ reqs[p].pc = "incReplies"
    /\ LET parentTweet == FindById(reqs[p].body.inReplyToId)
           r == IF parentTweet.exists
                THEN [reqs[p] EXCEPT !.parentTweetAuthorId = parentTweet.author,
                                     !.quotedTweetContent = parentTweet.content]
                ELSE reqs[p]
       IN IF Rejected(reqs[p])
          THEN /\ UNCHANGED tweets
               /\ Respond(p, 500, "ServerError")
          ELSE
          /\ tweets' = IF parentTweet.exists
                       THEN [tweets EXCEPT ![parentTweet.id].engagementCount.replies = @ + 1]
                       ELSE tweets
          /\ Continue(p, IF NotifiesAuthor(r.parentTweetAuthorId, r.actor)
                         THEN [r EXCEPT !.pc = "replyNotify",
                                        !.notification =
                                            NewNotification(r.parentTweetAuthorId, r.actor,
                                                "reply", r.tweet.id,
                                                Snippet(r.quotedTweetContent))]
                         ELSE GoQuote(r))
    /\ UNCHANGED <<users, notifications, issued, emitted>>

\* await notification.save() of the reply notification
CreateTweetReplyNotify(p) ==
    /\ reqs[p].op = "createTweet"
    /\ reqs[p].pc = "replyNotify"
    /\ \E ok \in Outcomes :
          /\ SaveNotification(reqs[p].notification, ok)
          /\ Continue(p, IF Stored(reqs[p].notification, ok)
                         THEN [reqs[p] EXCEPT !.pc = "replyEmit"]
                         ELSE GoQuote(Caught(reqs[p], reqs[p].notification, FALSE)))
    /\ UNCHANGED <<users, tweets, issued, emitted>>

\* Notification.findById(...).populate(...); io.to(parentTweetAuthorId).emit(...)
CreateTweetReplyEmit(p) ==
    /\ reqs[p].op = "createTweet"
    /\ reqs[p].pc = "replyEmit"
    /\ \E ok \in Outcomes :
          /\ Push(reqs[p].parentTweetAuthorId, reqs[p].notification, ok)
          /\ Continue(p, GoQuote(Caught(reqs[p], reqs[p].notification, ok)))
    /\ UNCHANGED <<users, tweets, notifications, issued>>

\* Tweet.findByIdAndUpdate(quotedTweetId, {$inc: {"engagementCount.quotes": 1}})
CreateTweetIncQuotes(p) ==
    /\ reqs[p].op = "createTweet"
    /\ reqs[p].pc = "incQuotes"
    /\ LET quotedTweet == FindById(reqs[p].body.quotedTweetId)
           r == IF quotedTweet.exists
                THEN [reqs[p] EXCEPT !.quotedTweetAuthorId = quotedTweet.author,
                                     !.quotedTweetContent = quotedTweet.content]
                ELSE reqs[p]
       IN IF Rejected(reqs[p])
          THEN /\ UNCHANGED tweets
               /\ Respond(p, 500, "ServerError")
          ELSE
          /\ tweets' = IF quotedTweet.exists
                       THEN [tweets EXCEPT ![quotedTweet.id].engagementCount.quotes = @ + 1]
                       ELSE tweets
          /\ Continue(p, IF NotifiesAuthor(r.quotedTweetAuthorId, r.actor)
                         THEN [r EXCEPT !.pc = "quoteNotify",
                                        !.notification =
                                            NewNotification(r.quotedTweetAuthorId, r.actor,
                                                "quote", r.tweet.id,
                                                Snippet(r.quotedTweetContent))]
                         ELSE GoMentions(r))
    /\ UNCHANGED <<users, notifications, issued, emitted>>

\* await notification.save() of the quote notification
CreateTweetQuoteNotify(p) ==
    /\ reqs[p].op = "createTweet"
    /\ reqs[p].pc = "quoteNotify"
    /\ \E ok \in Outcomes :
          /\ SaveNotification(reqs[p].notification, ok)
          /\ Continue(p, IF Stored(reqs[p].notification, ok)
                         THEN [reqs[p] EXCEPT !.pc = "quoteEmit"]
                         ELSE GoMentions(Caught(reqs[p], reqs[p].notification, FALSE)))
    /\ UNCHANGED <<users, tweets, issued, emitted>>

CreateTweetQuoteEmit(p) ==
    /\ reqs[p].op = "createTweet"
    /\ reqs[p].pc = "quoteEmit"
    /\ \E ok \in Outcomes :
          /\ Push(reqs[p].quotedTweetAuthorId, reqs[p].notification, ok)
          /\ Continue(p, GoMentions(Caught(reqs[p], reqs[p].notification, ok)))
    /\ UNCHANGED <<users, tweets, notifications, issued>>

\* await Promise.allSettled(mentionNotificationPromises): the handler goes on
\* when every mention notification is saved and emitted, or has failed
SettleMention(r, pending, emitting) ==
    [r EXCEPT !.pending = pending, !.emitting = emitting,
              !.pc = IF pending = {} /\ emitting = {} THEN "populate" ELSE @]

\* await notification.save() of one mention notification
CreateTweetMentionNotify(p, n) ==
    /\ reqs[p].op = "createTweet"
    /\ reqs[p].pc = "mentions"
    /\ n \in reqs[p].pending
    /\ \E ok \in Outcomes :
          /\ SaveNotification(n, ok)
          /\ Continue(p, SettleMention(Caught(reqs[p], n, Stored(n, ok)),
                                       reqs[p].pending \ {n},
                                       IF Stored(n, ok)
                                       THEN reqs[p].emitting \cup {n}
                                       ELSE reqs[p].emitting))
    /\ UNCHANGED <<users, tweets, issued, emitted>>

\* Notification.findById(...).populate(...); io.to(mentionedUserId).emit(...)
CreateTweetMentionEmit(p, n) ==
    /\ reqs[p].op = "createTweet"
    /\ reqs[p].pc = "mentions"
    /\ n \in reqs[p].emitting
    /\ \E ok \in Outcomes :
          /\ Push(n.recipient, n, ok)
          /\ Continue(p, SettleMention(Caught(reqs[p], n, ok), reqs[p].pending,
                                       reqs[p].emitting \ {n}))
    /\ UNCHANGED <<users, tweets, notifications, issued>>

\* populatedTweetForResponse = await Tweet.findById(tweet._id).populate(...)
CreateTweetPopulate(p) ==
    /\ reqs[p].op = "createTweet"
    /\ reqs[p].pc = "populate"
    /\ IF Rejected(reqs[p])
       THEN Respond(p, 500, "ServerError")
       ELSE Continue(p, [reqs[p] EXCEPT !.pc = "trends"])
    /\ UNCHANGED <<users, tweets, notifications, issued, emitted>>

\* the trends aggregate and io.emit("trends:update"), io.emit("tweet:new"), each
\* in its own try block, then res.status(201)
CreateTweetRespond(p) ==
    /\ reqs[p].op = "createTweet"
    /\ reqs[p].pc = "trends"
    /\ \E trendsOk \in Outcomes, socketOk \in Outcomes :
          /\ emitted' = emitted
                \cup (IF trendsOk
                      THEN {Event("trends:update", NoUser, NoNotification, reqs[p].id)}
                      ELSE {})
                \cup (IF socketOk
                      THEN {Event("tweet:new", NoUser, NoNotification, reqs[p].id)}
                      ELSE {})
          /\ RespondWith(p, [reqs[p] EXCEPT !.trendsFailed = ~trendsOk], 201, "ok")
    /\ UNCHANGED <<users, tweets, notifications, issued>>

\* a new tweet needs a free id of the model's store when it is saved
SavesAhead == Cardinality({q \in Procs : reqs[q].op = "createTweet" /\ reqs[q].pc = "save"})

\* the store operations of createTweet after the save
StoreSteps == {"refetch", "incReplies", "incQuotes", "populate"}

\* a createTweet during which the store rejects one operation, or none
StartCreateRejecting(p, actor, body, rejects) ==
    /\ SavesAhead < Cardinality(FreeIds)
    /\ FirstFree(p)
    /\ StillExists(actor)
    /\ Continue(p, [IdleReq EXCEPT !.op = "createTweet", !.pc = "save", !.actor = actor,
                                   !.token = ValidToken(actor),
                                   !.following = users[actor].following,
                                   !.body = body, !.rejects = rejects])
    /\ issued' = issued + 1
    /\ UNCHANGED <<users, tweets, notifications, emitted>>

StartCreate(p, actor, body) ==
    /\ SavesAhead < Cardinality(FreeIds)
    /\ Protect(p, "createTweet", actor, NoTweet, NoUser, body, "save")

CreateStep(p) ==
    \/ CreateTweetSave(p)
    \/ CreateTweetRefetch(p)
    \/ CreateTweetIncReplies(p)
    \/ CreateTweetReplyNotify(p)
    \/ CreateTweetReplyEmit(p)
    \/ CreateTweetIncQuotes(p)
    \/ CreateTweetQuoteNotify(p)
    \/ CreateTweetQuoteEmit(p)
    \/ \E n \in reqs[p].pending : CreateTweetMentionNotify(p, n)
    \/ \E n \in reqs[p].emitting : CreateTweetMentionEmit(p, n)
    \/ CreateTweetPopulate(p)
    \/ CreateTweetRespond(p)

\* ---- getTimeline / getTweetThread --------------------------------------------
\* parseInt(req.query.page) || 1 and parseInt(req.query.limit) || 10; 0 stands
\* for a parameter that is absent, not a number, or 0
OrDefault(n, default) == IF n = 0 THEN default ELSE n

\* .sort({createdAt: 1}): the ids of S, oldest first; ids are given in the order
\* of creation
OldestFirst(S) ==
    [k \in 1..Cardinality(S) |->
        CHOOSE t \in S : Cardinality({u \in S : u <= t}) = k]

\* .sort({createdAt: -1})
NewestFirst(S) ==
    [k \in 1..Cardinality(S) |->
        CHOOSE t \in S : Cardinality({u \in S : u >= t}) = k]

\* .skip((page - 1) * limit).limit(limit)
SkipLimit(list, page, limit) ==
    SubSeq(list, (page - 1) * limit + 1, Min(page * limit, Len(list)))

\* the timeline query without its isDeleted condition
TimelineQueryWithDeleted(following, includeReplies) ==
    {t \in TweetIds : /\ tweets[t].exists
                      /\ tweets[t].author \in following
                      /\ includeReplies \/ tweets[t].inReplyTo = NoTweet}

\* Tweet.find({author: {$in: following}, isDeleted: false [, inReplyTo: null]})
TimelineQuery(following, includeReplies) ==
    {t \in TweetIds : /\ tweets[t].exists
                      /\ tweets[t].author \in following
                      /\ ~tweets[t].isDeleted
                      /\ includeReplies \/ tweets[t].inReplyTo = NoTweet}

\* the query of getTimeline on req.user.following with the user pushed to it
GetTimelineFind(p) ==
    /\ reqs[p].op = "getTimeline"
    /\ reqs[p].pc = "find"
    /\ Continue(p, [reqs[p] EXCEPT
            !.pc = "respond",
            !.result = SkipLimit(
                NewestFirst(TimelineQuery(reqs[p].following \cup {reqs[p].actor},
                                          reqs[p].includeReplies)),
                OrDefault(reqs[p].page, DefaultPage),
                OrDefault(reqs[p].limit, DefaultLimit))])
    /\ UNCHANGED <<users, tweets, notifications, issued, emitted>>

\* countDocuments, the bookmarks of the user, res.status(200)
GetTimelineRespond(p) ==
    /\ reqs[p].op = "getTimeline"
    /\ reqs[p].pc = "respond"
    /\ Respond(p, 200, "ok")
    /\ UNCHANGED <<users, tweets, notifications, issued, emitted>>

\* const tweet = await Tweet.findById(id): 404 when missing or deleted
GetTweetThreadFind(p) ==
    /\ reqs[p].op = "getTweetThread"
    /\ reqs[p].pc = "find"
    /\ LET tweet == FindById(reqs[p].id) IN
         IF ~tweet.exists \/ tweet.isDeleted
         THEN Respond(p, 404, "NotFound")
         ELSE Continue(p, [reqs[p] EXCEPT !.pc = "replies", !.tweet = tweet])
    /\ UNCHANGED <<users, tweets, notifications, issued, emitted>>

\* the thread query without its isDeleted condition
ThreadQueryWithDeleted(id) ==
    {t \in TweetIds : tweets[t].exists /\ tweets[t].inReplyTo = id}

\* Tweet.find({inReplyTo: id, isDeleted: false})
ThreadQuery(id) ==
    {t \in TweetIds : /\ tweets[t].exists
                      /\ tweets[t].inReplyTo = id
                      /\ ~tweets[t].isDeleted}

GetTweetThreadReplies(p) ==
    /\ reqs[p].op = "getTweetThread"
    /\ reqs[p].pc = "replies"
    /\ Continue(p, [reqs[p] EXCEPT
            !.pc = "respond",
            !.result = SkipLimit(OldestFirst(ThreadQuery(reqs[p].id)),
                                 OrDefault(reqs[p].page, DefaultPage),
                                 OrDefault(reqs[p].limit, DefaultLimit))])
    /\ UNCHANGED <<users, tweets, notifications, issued, emitted>>

\* findByIdAndUpdate(id, {$inc: {"analytics.impressions": 1}})
IncImpressions(id) == [tweets EXCEPT ![id].impressions = @ + 1]

\* await Tweet.findByIdAndUpdate(id, {$inc: ...}) in the try block of the
\* handler, then res.status(200); a rejected write goes to the catch block of
\* the handler, which answers 400
CountImpression(p, ok) ==
    IF ok
    THEN tweets' = IncImpressions(reqs[p].id) /\ Respond(p, 200, "ok")
    ELSE tweets' = tweets /\ Respond(p, 400, "Error")

\* countDocuments, the bookmarks, the impressions counter, res.status(200)
GetTweetThreadRespond(p) ==
    /\ reqs[p].op = "getTweetThread"
    /\ reqs[p].pc = "respond"
    /\ \E ok \in Outcomes : CountImpression(p, ok)
    /\ UNCHANGED <<users, notifications, issued, emitted>>

\* ---- getTweet ---------------------------------------------------------------
\* const tweet = await Tweet.findById(id): 404 when missing or deleted
GetTweetFind(p) ==
    /\ reqs[p].op = "getTweet"
    /\ reqs[p].pc = "find"
    /\ LET tweet == FindById(reqs[p].id) IN
         IF ~tweet.exists \/ tweet.isDeleted
         THEN Respond(p, 404, "NotFound")
         ELSE Continue(p, [reqs[p] EXCEPT !.pc = "respond", !.tweet = tweet])
    /\ UNCHANGED <<users, tweets, notifications, issued, emitted>>

\* the impressions counter, then User.findById(req.user._id) for the bookmarked
\* flag and res.status(200)
GetTweetRespond(p) ==
    /\ reqs[p].op = "getTweet"
    /\ reqs[p].pc = "respond"
    /\ \E ok \in Outcomes : CountImpression(p, ok)
    /\ UNCHANGED <<users, notifications, issued, emitted>>

GetTweetStep(p) == GetTweetFind(p) \/ GetTweetRespond(p)

ViewOps == {"getTweet", "getTweetThread"}

ReadOps == {"getTimeline", "getTweetThread"}

\* req.query of a read request
Queries(pages, limits) == [page : pages, limit : limits, includeReplies : BOOLEAN]

StartRead(p, op, actor, id, query) ==
    /\ FirstFree(p)
    /\ StillExists(actor)
    /\ Continue(p, [IdleReq EXCEPT !.op = op, !.pc = "find", !.actor = actor,
                                   !.token = ValidToken(actor),
                                   !.following = users[actor].following,
                                   !.id = id, !.page = query.page,
                                   !.limit = query.limit,
                                   !.includeReplies = query.includeReplies])
    /\ issued' = issued + 1
    /\ UNCHANGED <<users, tweets, notifications, emitted>>

ReadStep(p) ==
    \/ GetTimelineFind(p)
    \/ GetTimelineRespond(p)
    \/ GetTweetThreadFind(p)
    \/ GetTweetThreadReplies(p)
    \/ GetTweetThreadRespond(p)

\* ---- getTrendingHashtags -------------------------------------------------------
\* "$engagementCount.likes" + "$engagementCount.retweets" + "$engagementCount.replies"
Engagement(t) ==
    tweets[t].engagementCount.likes + tweets[t].engagementCount.retweets
        + tweets[t].engagementCount.replies

\* the $match stage without its isDeleted condition
TrendMatchWithDeleted(at) ==
    {t \in TweetIds : /\ tweets[t].exists
                      /\ tweets[t].createdAt >= at - TrendDays
                      /\ tweets[t].hashtags # <<>>}

\* $match {createdAt: {$gte: oneWeekAgo}, isDeleted: false, hashtags: {$ne: []}}
TrendMatch(at) ==
    {t \in TweetIds : /\ tweets[t].exists
                      /\ tweets[t].createdAt >= at - TrendDays
                      /\ ~tweets[t].isDeleted
                      /\ tweets[t].hashtags # <<>>}

\* $unwind "$hashtags": one document for every element of hashtags
Unwind(S) ==
    UNION {{[tweet |-> t, at |-> i, hashtags |-> tweets[t].hashtags[i]] :
               i \in 1..Len(tweets[t].hashtags)} : t \in S}

\* engagementSum: {$sum: {$add: [...]}} over the documents of a group
RECURSIVE EngagementSum(_)
EngagementSum(rows) ==
    IF rows = {} THEN 0
    ELSE LET row == CHOOSE x \in rows : TRUE
         IN Engagement(row.tweet) + EngagementSum(rows \ {row})

\* $group by "$hashtags" and $project: count, tweetCount ($size of the pushed
\* ids) and engagementScore of every hashtag
Group(rows) ==
    {LET group == {row \in rows : row.hashtags = h}
     IN [hashtag |-> h, count |-> Cardinality(group),
         tweetCount |-> Cardinality(group),
         engagementScore |-> EngagementSum(group)] : h \in {row.hashtags : row \in rows}}

\* $sort {count: -1, engagementScore: -1}
SortsBefore(a, b) ==
    \/ a.count > b.count
    \/ a.count = b.count /\ a.engagementScore >= b.engagementScore

\* the orders $sort may give: entries that tie on both keys come in any order
Sorted(entries) ==
    {list \in [1..Cardinality(entries) -> entries] :
        \A i, j \in 1..Cardinality(entries) :
            i < j => list[i] # list[j] /\ SortsBefore(list[i], list[j])}

\* $limit
Limit(list, n) == SubSeq(list, 1, Min(n, Len(list)))

\* const {limit = 10} = req.query, the aggregate and res.status(200); a limit
\* of 0 stands for a request without the parameter
GetTrendingHashtags(p) ==
    /\ reqs[p].op = "getTrendingHashtags"
    /\ reqs[p].pc = "aggregate"
    /\ \E list \in Sorted(Group(Unwind(TrendMatch(now)))) :
          RespondWith(p, [reqs[p] EXCEPT
                             !.result = Limit(list, OrDefault(reqs[p].limit, TrendLimit))],
                      200, "ok")
    /\ UNCHANGED <<users, tweets, notifications, issued, emitted>>

\* GET /hashtags, optionalAuth
StartTrends(p, limit) ==
    /\ FirstFree(p)
    /\ Continue(p, [IdleReq EXCEPT !.op = "getTrendingHashtags", !.pc = "aggregate",
                                   !.limit = limit])
    /\ issued' = issued + 1
    /\ UNCHANGED <<users, tweets, notifications, emitted>>

\* Date.now(): a day passes
Tick ==
    /\ now < MaxNow
    /\ now' = now + 1
    /\ UNCHANGED <<store, sockets, connectedUsers, accounts>>

Bodies(contents, refs) ==
    [content : contents, inReplyToId : refs, quotedTweetId : refs]

\* "@name " for every user of S, in the order of the ids
RECURSIVE AtNames(_)
AtNames(S) ==
    IF S = {} THEN <<>>
    ELSE LET u == CHOOSE x \in S : \A y \in S : x <= y
         IN <<"@">> \o Username(u) \o <<" ">> \o AtNames(S \ {u})

\* a content of n characters, or more when the mentions need more, that
\* mentions the users of S
WithMentions(S, n) ==
    AtNames(S) \o Text(IF n > Len(AtNames(S)) THEN n - Len(AtNames(S)) ELSE 0)

\* ---- the lists of tweets ---------------------------------------------------------
\* variant: the condition isDeleted: false is left out
LiveOrDeleted(t) == tweets[t].exists

\* the condition isDeleted: false of a query on the tweets
Live(t) == tweets[t].exists /\ ~tweets[t].isDeleted

\* getUserTweets: Tweet.find({author: user._id, isDeleted: false, inReplyTo: null})
UserTweetsQuery(user) ==
    {t \in TweetIds : Live(t) /\ tweets[t].author = user /\ tweets[t].inReplyTo = NoTweet}

\* getUserReplies: Tweet.find({author: user._id, isDeleted: false, inReplyTo: {$ne: null}})
UserRepliesQuery(user) ==
    {t \in TweetIds : Live(t) /\ tweets[t].author = user /\ tweets[t].inReplyTo # NoTweet}

\* getUserLikedTweets: Tweet.find({likes: user._id, isDeleted: false}, "_id"), then
\* Tweet.find({_id: {$in: likedTweetIds}, isDeleted: false})
UserLikedQuery(user) ==
    LET likedTweetIds == {t \in TweetIds : Live(t) /\ user \in tweets[t].likes}
    IN {t \in likedTweetIds : Live(t)}

\* getUserBookmarks: populate({path: "bookmarks", match: {isDeleted: false}})
BookmarksQuery(user) == {t \in users[user].bookmarks : Live(t)}

\* getPopularTweets: Tweet.find({createdAt: {$gte: oneWeekAgo}, isDeleted: false})
PopularQuery(at) == {t \in TweetIds : Live(t) /\ tweets[t].createdAt >= at - TrendDays}

\* .sort({"engagementCount.likes": -1, "engagementCount.retweets": -1,
\*        "engagementCount.replies": -1, createdAt: -1})
MorePopular(a, b) ==
    LET ca == tweets[a].engagementCount
        cb == tweets[b].engagementCount IN
    \/ ca.likes > cb.likes
    \/ ca.likes = cb.likes /\ ca.retweets > cb.retweets
    \/ ca.likes = cb.likes /\ ca.retweets = cb.retweets /\ ca.replies > cb.replies
    \/ /\ ca.likes = cb.likes /\ ca.retweets = cb.retweets /\ ca.replies = cb.replies
       /\ tweets[a].createdAt >= tweets[b].createdAt

\* the orders of S a sort may give: before(a, b) for a listed before b
Orders(S, before(_, _)) ==
    {list \in [1..Cardinality(S) -> S] :
        \A i, j \in 1..Cardinality(S) : i < j => list[i] # list[j] /\ before(list[i], list[j])}

\* hashtag.startsWith("#") ? hashtag.substring(1) : hashtag
WithoutHash(s) == IF Len(s) > 0 /\ s[1] = "#" THEN SubSeq(s, 2, Len(s)) ELSE s

\* getTweetsByHashtag: Tweet.find({hashtags: cleanHashtag.toLowerCase(), isDeleted: false})
HashtagQuery(hashtag) ==
    {t \in TweetIds : Live(t) /\ Lower(WithoutHash(hashtag)) \in Range(tweets[t].hashtags)}

\* the terms of a text: its runs of word characters, in lower case
Terms(s) ==
    {Lower(WordRun(s, i)) : i \in {k \in 1..Len(s) :
                                     IsWord(s[k]) /\ (k = 1 \/ ~IsWord(s[k - 1]))}}

\* search: Tweet.find({$text: {$search: q}, isDeleted: false}); the text index is on
\* the content and a tweet matches when it holds a term of q
TextQuery(q) == {t \in TweetIds : Live(t) /\ Terms(q) \cap Terms(tweets[t].content) # {}}

ListOps ==
    {"getUserTweets", "getUserReplies", "getUserLikedTweets", "getUserBookmarks",
     "getPopularTweets", "getTweetsByHashtag"}

\* the tweets the query of a list handler finds, in the orders its sort may give
Listings(r) ==
    CASE r.op = "getUserTweets" -> {NewestFirst(UserTweetsQuery(r.username))}
      [] r.op = "getUserReplies" -> {NewestFirst(UserRepliesQuery(r.username))}
      [] r.op = "getUserLikedTweets" -> {NewestFirst(UserLikedQuery(r.username))}
      [] r.op = "getUserBookmarks" -> {NewestFirst(BookmarksQuery(r.actor))}
      [] r.op = "getPopularTweets" -> Orders(PopularQuery(now), MorePopular)
      [] r.op = "getTweetsByHashtag" -> {NewestFirst(HashtagQuery(r.q))}

\* page and limit, User.findOne({username}) of the lists of a user with its 404,
\* and the query with sort, skip and limit
ListFind(p) ==
    LET r == reqs[p] IN
    /\ r.op \in ListOps
    /\ r.pc = "find"
    /\ IF r.op \in {"getUserTweets", "getUserReplies", "getUserLikedTweets"}
          /\ FindUser(r.username) = NoUser
       THEN Respond(p, 404, "NotFound")
       ELSE \E list \in Listings(r) :
               Continue(p, [r EXCEPT !.pc = "respond",
                                     !.result = SkipLimit(list,
                                                    OrDefault(r.page, DefaultPage),
                                                    OrDefault(r.limit, DefaultLimit))])
    /\ UNCHANGED <<users, tweets, notifications, issued, emitted>>

\* the count for the pagination, the bookmarked flags, res.status(200)
ListRespond(p) ==
    /\ reqs[p].op \in ListOps
    /\ reqs[p].pc = "respond"
    /\ Respond(p, 200, "ok")
    /\ UNCHANGED <<users, tweets, notifications, issued, emitted>>

\* the routes of the lists: the bookmarks behind protect, the others public or
\* behind optionalAuth; hashtag is the parameter of getTweetsByHashtag
StartList(p, op, actor, username, hashtag, query) ==
    /\ FirstFree(p)
    /\ StillExists(actor)
    /\ Continue(p, [IdleReq EXCEPT !.op = op, !.pc = "find", !.actor = actor,
                                   !.token = ValidToken(actor),
                                   !.username = username, !.q = hashtag,
                                   !.page = query.page, !.limit = query.limit])
    /\ issued' = issued + 1
    /\ UNCHANGED <<users, tweets, notifications, emitted>>

\* ---- search -----------------------------------------------------------------------
SearchLimit == 5

\* hashtags: {$regex: hashtagQuery, $options: "i"}: the hashtag holds the query
MatchesRegex(hashtag, hashtagQuery) ==
    \E i \in 0..(Len(hashtag) - Len(hashtagQuery)) :
        Lower(SubSeq(hashtag, i + 1, i + Len(hashtagQuery))) = Lower(hashtagQuery)

\* $match on the tweets with a hashtag that holds the query, $unwind, $match on
\* the unwound hashtags: the occurrences <<tweet, position>> that are left
SearchUnwind(hashtagQuery) ==
    UNION {{<<t, i>> : i \in {k \in 1..Len(tweets[t].hashtags) :
                                  MatchesRegex(tweets[t].hashtags[k], hashtagQuery)}} :
             t \in {u \in TweetIds : tweets[u].exists}}

\* {$group: {_id: "$hashtags", count: {$sum: 1}}}
SearchGroup(occurrences) ==
    {[hashtag |-> h,
      count |-> Cardinality({o \in occurrences : tweets[o[1]].hashtags[o[2]] = h})] :
        h \in {tweets[o[1]].hashtags[o[2]] : o \in occurrences}}

\* {$sort: {count: -1}}
MoreCounted(a, b) == a.count >= b.count

SearchTypes == {"all", "tweets", "hashtags"}

\* if (!q) 400; the tweets of a search of type tweets or all, by text score
SearchTweets(p) ==
    LET r == reqs[p]
        paged == r.type = "tweets" IN
    /\ r.op = "search"
    /\ r.pc = "tweets"
    /\ IF r.q = <<>> THEN Respond(p, 400, "QueryRequired")
       ELSE IF r.type \notin {"tweets", "all"}
       THEN Continue(p, [r EXCEPT !.pc = "hashtags"])
       ELSE \E list \in Orders(TextQuery(r.q), LAMBDA a, b : TRUE) :
               Continue(p, [r EXCEPT
                   !.pc = "hashtags",
                   !.result = SkipLimit(list,
                                  IF paged THEN OrDefault(r.page, DefaultPage) ELSE DefaultPage,
                                  IF paged THEN OrDefault(r.limit, DefaultLimit)
                                  ELSE SearchLimit)])
    /\ UNCHANGED <<users, tweets, notifications, issued, emitted>>

\* the hashtags of a search of type hashtags or all: the aggregate on the
\* hashtags of the tweets, and the number of the hashtags it groups
SearchHashtags(p) ==
    LET r == reqs[p]
        paged == r.type = "hashtags"
        groups == SearchGroup(SearchUnwind(WithoutHash(r.q))) IN
    /\ r.op = "search"
    /\ r.pc = "hashtags"
    /\ IF r.type \notin {"hashtags", "all"}
       THEN Continue(p, [r EXCEPT !.pc = "respond"])
       ELSE \E list \in Orders(groups, MoreCounted) :
               LET hashtagResults ==
                       SkipLimit(list,
                           IF paged THEN OrDefault(r.page, DefaultPage) ELSE DefaultPage,
                           IF paged THEN OrDefault(r.limit, DefaultLimit) ELSE SearchLimit)
               IN Continue(p, [r EXCEPT
                      !.pc = "respond",
                      !.hashtags = [i \in 1..Len(hashtagResults) |->
                                       hashtagResults[i].hashtag],
                      !.hashtagTotal = Cardinality(groups)])
    /\ UNCHANGED <<users, tweets, notifications, issued, emitted>>

\* the counts of a search of type all and res.status(200)
SearchRespond(p) ==
    /\ reqs[p].op = "search"
    /\ reqs[p].pc = "respond"
    /\ Respond(p, 200, "ok")
    /\ UNCHANGED <<users, tweets, notifications, issued, emitted>>

\* GET /search?q=&type=&page=&limit=
StartSearch(p, q, type, query) ==
    /\ FirstFree(p)
    /\ Continue(p, [IdleReq EXCEPT !.op = "search", !.pc = "tweets", !.q = q,
                                   !.type = type, !.page = query.page,
                                   !.limit = query.limit])
    /\ issued' = issued + 1
    /\ UNCHANGED <<users, tweets, notifications, emitted>>

\* ---- getRecommendedUsers ---------------------------------------------------------
\* User.find({}).sort({followerCount: -1}): every user, the higher stored
\* followerCount first; users with the same stored value, or with none, come in
\* any order
ByFollowerCount ==
    {list \in [1..NumUsers -> Users] :
        \A i, j \in 1..NumUsers :
            i < j => /\ list[i] # list[j]
                     /\ users[list[i]].followerCount >= users[list[j]].followerCount}

\* recommendedUsers.filter: not followed by the current user and not the user
Recommendable(list, actor, following) ==
    SelectSeq(list, LAMBDA u : u \notin following /\ u # actor)

\* const {limit = 5} = req.query and the find, limited to limit + 50 users; a
\* limit of 0 stands for a request without the parameter. Without req.user the
\* handler slices and answers at once
GetRecommendedUsersFind(p) ==
    LET r == reqs[p]
        limit == OrDefault(r.limit, RecommendLimit) IN
    /\ r.op = "getRecommendedUsers"
    /\ r.pc = "find"
    /\ \E list \in ByFollowerCount :
          LET recommendedUsers == Limit(list, limit + RecommendExtra) IN
          IF r.actor = NoUser
          THEN RespondWith(p, [r EXCEPT !.result = Limit(recommendedUsers, limit)],
                           200, "ok")
          ELSE Continue(p, [r EXCEPT !.pc = "filter", !.result = recommendedUsers])
    /\ UNCHANGED <<users, tweets, notifications, issued, emitted>>

\* User.findById(req.user._id): the users the current user follows now are
\* filtered out, and the current user; slice(0, limit) and 200
GetRecommendedUsersFilter(p) ==
    LET r == reqs[p]
        limit == OrDefault(r.limit, RecommendLimit)
        currentUser == users[r.actor] IN
    /\ r.op = "getRecommendedUsers"
    /\ r.pc = "filter"
    /\ RespondWith(p, [r EXCEPT !.result =
                          Limit(Recommendable(r.result, r.actor, currentUser.following),
                                limit)],
                   200, "ok")
    /\ UNCHANGED <<users, tweets, notifications, issued, emitted>>

\* GET /who-to-follow, optionalAuth: req.user is the active user of a valid token
\* and is not set otherwise
StartRecommend(p, actor, limit) ==
    /\ FirstFree(p)
    /\ actor # NoUser => StillExists(actor)
    /\ Continue(p, [IdleReq EXCEPT !.op = "getRecommendedUsers", !.pc = "find",
                                   !.actor = actor, !.limit = limit])
    /\ issued' = issued + 1
    /\ UNCHANGED <<users, tweets, notifications, emitted>>

\* ---- a request of a protected route with any token -----------------------------
ProtectedOps ==
    AddOps \cup BookmarkOps \cup AuthOps
        \cup {"deleteTweet", "followUser", "createTweet", "getTimeline"}

\* the handler a token that protect lets through reaches
Handler(p, op, actor, id, username, body) ==
    CASE op \in EngageOps -> StartEngage(p, op, actor, id)
      [] op \in BookmarkOps -> StartBookmark(p, op, actor, id)
      [] op \in FollowOps -> StartFollow(p, op, actor, username)
      [] op = "createTweet" -> StartCreate(p, actor, body)
      [] op = "getTimeline" ->
            StartRead(p, op, actor, NoTweet,
                      [page |-> 0, limit |-> 0, includeReplies |-> FALSE])
      [] op = "getCurrentUser" -> Protect(p, op, actor, NoTweet, NoUser, BlankBody, "find")
      [] op = "logout" -> Logout(p, actor)

\* protect: without a token, with a token verifyAccessToken rejects, or with the
\* token of a user that is gone or deactivated, next(error) with statusCode 401
\* answers the request; otherwise the handler of the route runs
Request(p, op, token, id, username, body) ==
    IF token.kind = "valid" /\ StillExists(token.id)
    THEN Handler(p, op, token.id, id, username, body)
    ELSE /\ FirstFree(p)
         /\ RespondWith(p, [IdleReq EXCEPT !.op = op, !.token = token, !.id = id,
                                           !.username = username, !.body = body],
                        401, "Unauthorized")
         /\ issued' = issued + 1
         /\ UNCHANGED <<users, tweets, notifications, emitted>>

\* ==== specifications ==========================================================
\* ---- engagement requests, overlapping, on a seeded store ----------------------
\* two tweets posted earlier: a short one by user 1, which user 2 has liked and
\* retweeted, and a long one by user 2
SeedTweets ==
    [t \in TweetIds |->
        IF t = 1
        THEN [NewTweet(1, Text(3), 1, NoTweet, NoTweet, {})
                EXCEPT !.likes = {2}, !.retweets = {2},
                       !.engagementCount.likes = 1, !.engagementCount.retweets = 1]
        ELSE IF t = 2 THEN NewTweet(2, Text(SnippetCut + 1), 2, NoTweet, NoTweet, {})
        ELSE NullTweet]

\* the notifications the like and the retweet of user 2 have stored for user 1
SeedNotifications ==
    SetToBag({NewNotification(1, 2, type, 1, Snippet(SeedTweets[1].content)) :
                 type \in {"like", "retweet"}})

InitEngage ==
    /\ users = [u \in Users |-> NewUser]
    /\ tweets = SeedTweets
    /\ notifications = SeedNotifications
    /\ reqs = [p \in Procs |-> IdleReq]
    /\ lastResponse = IdleReq
    /\ issued = 0
    /\ emitted = {}
    /\ faulty = FALSE
    /\ ServerStart

NextEngage ==
    \/ \E p \in Procs, op \in EngageOps, actor \in Users, id \in TweetIds \cup {GhostTweet} :
          /\ issued < MaxEngage
          /\ StartEngage(p, op, actor, id)
    \/ \E p \in Procs : EngageStep(p)

SpecEngage == InitEngage /\ [][NextEngage]_vars

\* ---- engagement requests that do not overlap on a tweet -------------------------
QuietOn(id) == \A q \in Procs : ~(InFlight(q) /\ reqs[q].id = id)

NextEngageSerial ==
    \/ \E p \in Procs, op \in EngageOps, actor \in Users, id \in TweetIds :
          /\ issued < MaxSerial
          /\ QuietOn(id)
          /\ StartEngage(p, op, actor, id)
    \/ \E p \in Procs : EngageStep(p)

SpecEngageSerial == InitEngage /\ [][NextEngageSerial]_vars

\* ---- follow and unfollow requests, overlapping --------------------------------
InitFollow == EmptyStore

NextFollow ==
    \/ \E p \in Procs, op \in FollowOps, actor \in Users, username \in Users \cup {GhostUser} :
          /\ issued < MaxFollow
          /\ StartFollow(p, op, actor, username)
    \/ \E p \in Procs : FollowStep(p)

SpecFollow == InitFollow /\ [][NextFollow]_vars

\* ---- createTweet requests, overlapping ----------------------------------------
CreateBodies ==
    Bodies({WithMentions(S, n) : S \in {{}, Users \cup {GhostUser}},
                                 n \in {3, SnippetCut + 1}},
           {NoTweet, GhostTweet, 1})

InitCreate == EmptyStore

NextCreate ==
    \/ \E p \in Procs, actor \in Users, body \in CreateBodies :
          /\ issued < MaxCreate
          /\ StartCreate(p, actor, body)
    \/ \E p \in Procs : CreateStep(p)

SpecCreate == InitCreate /\ [][NextCreate]_vars

\* ---- likes and retweets of one tweet of every valid content length ------------
SnippetContents ==
    {Text(n) : n \in 1..ContentMaxLength}
        \cup {TextSp(n, SnippetCut) : n \in (SnippetCut + 1)..ContentMaxLength}

InitSnippet ==
    /\ users = [u \in Users |-> NewUser]
    /\ \E c \in SnippetContents :
          tweets = [t \in TweetIds |->
                      IF t = 1 THEN NewTweet(1, c, 1, NoTweet, NoTweet, {}) ELSE NullTweet]
    /\ notifications = EmptyBag
    /\ reqs = [p \in Procs |-> IdleReq]
    /\ lastResponse = IdleReq
    /\ issued = 0
    /\ emitted = {}
    /\ faulty = FALSE
    /\ ServerStart

NextSnippet ==
    \/ \E p \in Procs, op \in AddOps, actor \in Users, id \in TweetIds :
          /\ issued < MaxSnippet
          /\ StartEngage(p, op, actor, id)
    \/ \E p \in Procs : AddStep(p)

SpecSnippet == InitSnippet /\ [][NextSnippet]_vars

\* ---- all requests, one at a time, on a store with the first seeded tweet --------
\* a body that replies to tweet 1, quotes it, mentions every user, or none of these
SerialBodies ==
    {b \in Bodies({WithMentions(S, 3) : S \in {{}, Users}}, {NoTweet, 1}) :
        /\ b.inReplyToId = NoTweet \/ b.quotedTweetId = NoTweet
        /\ b.content = Text(3) \/ (b.inReplyToId = NoTweet /\ b.quotedTweetId = NoTweet)}

InitSerial ==
    /\ users = [u \in Users |-> NewUser]
    /\ tweets = [t \in TweetIds |-> IF t = 1 THEN SeedTweets[1] ELSE NullTweet]
    /\ notifications = SeedNotifications
    /\ reqs = [p \in Procs |-> IdleReq]
    /\ lastResponse = IdleReq
    /\ issued = 0
    /\ emitted = {}
    /\ faulty = FALSE
    /\ ServerStart

NextSerial ==
    \/ \E p \in Procs, op \in EngageOps, actor \in Users, id \in TweetIds :
          /\ issued < MaxSerial
          /\ AllQuiet
          /\ StartEngage(p, op, actor, id)
    \/ \E p \in Procs, op \in FollowOps, actor \in Users, username \in Users :
          /\ issued < MaxSerial
          /\ AllQuiet
          /\ StartFollow(p, op, actor, username)
    \/ \E p \in Procs, actor \in Users, body \in SerialBodies :
          /\ issued < MaxSerial
          /\ AllQuiet
          /\ StartCreate(p, actor, body)
    \/ \E p \in Procs : EngageStep(p)
    \/ \E p \in Procs : FollowStep(p)
    \/ \E p \in Procs : CreateStep(p)

SpecSerial == InitSerial /\ [][NextSerial]_vars

\* ---- requests whose side effects may fail, one request at a time --------------
\* one tweet of user 1 that nobody has liked; the database and the socket server
\* may throw in every side effect
InitFaults ==
    /\ users = [u \in Users |-> NewUser]
    /\ tweets = [t \in TweetIds |->
                    IF t = 1 THEN NewTweet(1, Text(3), 1, NoTweet, NoTweet, {})
                    ELSE NullTweet]
    /\ notifications = EmptyBag
    /\ reqs = [p \in Procs |-> IdleReq]
    /\ lastResponse = IdleReq
    /\ issued = 0
    /\ emitted = {}
    /\ faulty = TRUE
    /\ ServerStart

NextFaults ==
    \/ \E p \in Procs, op \in AddOps, actor \in Users, id \in TweetIds :
          /\ issued < MaxFaults
          /\ AllQuiet
          /\ StartEngage(p, op, actor, id)
    \/ \E p \in Procs, actor \in Users, username \in Users :
          /\ issued < MaxFaults
          /\ AllQuiet
          /\ StartFollow(p, "followUser", actor, username)
    \/ \E p \in Procs, actor \in Users, body \in SerialBodies :
          /\ issued < MaxFaults
          /\ AllQuiet
          /\ StartCreate(p, actor, body)
    \/ \E p \in Procs : AddStep(p)
    \/ \E p \in Procs : \/ FollowUserFind(p)
                         \/ FollowUserUpdateFollowing(p)
                         \/ FollowUserUpdateFollowers(p)
                         \/ FollowUserNotify(p)
                         \/ FollowUserEmit(p)
    \/ \E p \in Procs : CreateStep(p)

SpecFaults == InitFaults /\ [][NextFaults]_vars

\* ---- tweets with hashtags ------------------------------------------------------
\* every content of at most MaxHashtagLen characters written with "#", "T", "t"
\* and the space
HashtagContents ==
    UNION {[1..n -> {"#", "T", "t", " "}] : n \in 1..MaxHashtagLen}

NextHashtags ==
    \/ \E p \in Procs, actor \in Users, content \in HashtagContents :
          /\ issued < MaxHashtag
          /\ AllQuiet
          /\ StartCreate(p, actor, [BlankBody EXCEPT !.content = content])
    \/ \E p \in Procs : \/ CreateTweetSave(p)
                         \/ CreateTweetRefetch(p)
                         \/ CreateTweetPopulate(p)
                         \/ CreateTweetRespond(p)

SpecHashtags == EmptyStore /\ [][NextHashtags]_vars

\* ---- tweets with mentions ------------------------------------------------------
\* contents that mention some of the users and a name no user has, and one that
\* writes the name of user 1 in upper case
MentionContents ==
    {WithMentions(S, n) : S \in SUBSET (Users \cup {GhostUser}), n \in {0, 3}}
        \cup {<<"@", "U", " ", "@", "u", "u">>, <<"@", "@", "u", "a">>}

\* the steps that createTweet takes on a body without reply and quote
CreateMentionStep(p) ==
    \/ CreateTweetSave(p)
    \/ CreateTweetRefetch(p)
    \/ \E n \in reqs[p].pending : CreateTweetMentionNotify(p, n)
    \/ \E m \in reqs[p].emitting : CreateTweetMentionEmit(p, m)
    \/ CreateTweetPopulate(p)
    \/ CreateTweetRespond(p)

NextMentions ==
    \/ \E p \in Procs, actor \in Users, content \in MentionContents :
          /\ issued < MaxMention
          /\ AllQuiet
          /\ StartCreate(p, actor, [BlankBody EXCEPT !.content = content])
    \/ \E p \in Procs : CreateMentionStep(p)

SpecMentions == EmptyStore /\ [][NextMentions]_vars

\* ---- tweets of the lengths around the limits -----------------------------------
\* n spaces
Spaces(n) == [i \in 1..n |-> " "]

\* contents of 0, 1, 2, 279, 280, 281 and 282 characters between up to MaxPad
\* spaces on each side
BoundaryContents ==
    {Spaces(l) \o Text(n) \o Spaces(r) :
        l \in 0..MaxPad, r \in 0..MaxPad,
        n \in {0, ContentMinLength, ContentMinLength + 1, ContentMaxLength - 1,
               ContentMaxLength, ContentMaxLength + 1, ContentMaxLength + 2}}

NextValidation ==
    \/ \E p \in Procs, actor \in Users, content \in BoundaryContents :
          /\ issued < MaxValidation
          /\ AllQuiet
          /\ StartCreate(p, actor, [BlankBody EXCEPT !.content = content])
    \/ \E p \in Procs : \/ CreateTweetSave(p)
                         \/ CreateTweetRefetch(p)
                         \/ CreateTweetPopulate(p)
                         \/ CreateTweetRespond(p)

SpecValidation == EmptyStore /\ [][NextValidation]_vars

\* ---- posting, following, deleting and reading, one request at a time -----------
\* the steps that createTweet takes on a body without quote and mention
CreatePlainStep(p) ==
    \/ CreateTweetSave(p)
    \/ CreateTweetRefetch(p)
    \/ CreateTweetIncReplies(p)
    \/ CreateTweetReplyNotify(p)
    \/ CreateTweetReplyEmit(p)
    \/ CreateTweetPopulate(p)
    \/ CreateTweetRespond(p)

\* tweets and replies to tweet 1
ReadBodies == {b \in Bodies({Text(3)}, {NoTweet, 1}) : b.quotedTweetId = NoTweet}

ReadQueries == {q \in Queries({0, 2}, {0, 1}) : q.page = 0 <=> q.limit = 0}

\* a read changes nothing in the store: a behaviour needs none before its last
\* request, which starts when the earlier ones have answered, and the last
\* request of a behaviour is left to the reads
ReadQuiet == AllQuiet /\ lastResponse.op \notin ReadOps

NextRead ==
    \/ \E p \in Procs, op \in FollowOps, actor \in Users, username \in Users :
          /\ issued + 1 < MaxRead
          /\ ReadQuiet
          /\ StartFollow(p, op, actor, username)
    \/ \E p \in Procs, actor \in Users, body \in ReadBodies :
          /\ issued + 1 < MaxRead
          /\ ReadQuiet
          /\ StartCreate(p, actor, body)
    \/ \E p \in Procs, actor \in Users, id \in TweetIds :
          /\ issued + 1 < MaxRead
          /\ ReadQuiet
          /\ StartEngage(p, "deleteTweet", actor, id)
    \/ \E p \in Procs, actor \in Users, query \in ReadQueries :
          /\ issued < MaxRead
          /\ ReadQuiet
          /\ StartRead(p, "getTimeline", actor, NoTweet, query)
    \/ \E p \in Procs, actor \in Users, id \in TweetIds, query \in ReadQueries :
          /\ issued < MaxRead
          /\ ReadQuiet
          /\ ~query.includeReplies
          /\ StartRead(p, "getTweetThread", actor, id, query)
    \/ \E p \in Procs : FollowStep(p)
    \/ \E p \in Procs : CreatePlainStep(p)
    \/ \E p \in Procs : DeleteTweetFind(p) \/ DeleteTweetUpdate(p)
    \/ \E p \in Procs : ReadStep(p)

SpecRead == InitSerial /\ [][NextRead]_vars

\* ---- all requests, overlapping, from the empty store ---------------------------
\* ---- engagement, bookmark and single-tweet read requests, one at a time -------
MaxBookmark == 2

\* req.query without parameters
NoQuery == [page |-> 0, limit |-> 0, includeReplies |-> FALSE]

ViewStep(p) ==
    \/ GetTweetStep(p)
    \/ GetTweetThreadFind(p)
    \/ GetTweetThreadReplies(p)
    \/ GetTweetThreadRespond(p)

NextBookmarks ==
    \/ \E p \in Procs, op \in EngageOps, actor \in Users, id \in TweetIds :
          /\ issued < MaxBookmark
          /\ AllQuiet
          /\ StartEngage(p, op, actor, id)
    \/ \E p \in Procs, op \in BookmarkOps, actor \in Users, id \in TweetIds :
          /\ issued < MaxBookmark
          /\ AllQuiet
          /\ StartBookmark(p, op, actor, id)
    \/ \E p \in Procs, op \in ViewOps, actor \in Users, id \in TweetIds :
          /\ issued < MaxBookmark
          /\ AllQuiet
          /\ StartRead(p, op, actor, id, NoQuery)
    \/ \E p \in Procs : EngageStep(p)
    \/ \E p \in Procs : BookmarkStep(p)
    \/ \E p \in Procs : ViewStep(p)

SpecBookmarks == InitSerial /\ [][NextBookmarks]_vars

\* ---- single-tweet reads whose impressions write may fail ------------------------
MaxView == 3

NextViewFaults ==
    \/ \E p \in Procs, op \in ViewOps, actor \in Users, id \in TweetIds :
          /\ issued < MaxView
          /\ StartRead(p, op, actor, id, NoQuery)
    \/ \E p \in Procs : ViewStep(p)

SpecViewFaults == InitFaults /\ [][NextViewFaults]_vars

\* ---- likes, retweets, follows and notification marks, one at a time -------------
MaxMark == 2

FollowUserStep(p) ==
    \/ FollowUserFind(p)
    \/ FollowUserUpdateFollowing(p)
    \/ FollowUserUpdateFollowers(p)
    \/ FollowUserNotify(p)
    \/ FollowUserEmit(p)

NextMarks ==
    \/ \E p \in Procs, op \in {"unlikeTweet", "likeTweet"}, actor \in Users, id \in TweetIds :
          /\ issued < MaxMark
          /\ AllQuiet
          /\ StartEngage(p, op, actor, id)
    \/ \E p \in Procs, actor \in Users, username \in Users :
          /\ issued < MaxMark
          /\ AllQuiet
          /\ StartFollow(p, "followUser", actor, username)
    \/ \E p \in Procs, actor \in Users,
          n \in BagToSet(notifications) \cup {NoNotification} :
          /\ issued < MaxMark
          /\ AllQuiet
          /\ StartMark(p, "markNotificationRead", actor, n)
    \/ \E p \in Procs, actor \in Users :
          /\ issued < MaxMark
          /\ AllQuiet
          /\ StartMark(p, "markAllNotificationsRead", actor, NoNotification)
    \/ \E p \in Procs : \/ LikeTweetFind(p)
                         \/ LikeTweetUpdate(p)
                         \/ LikeTweetNotify(p)
                         \/ LikeTweetEmit(p)
                         \/ UnlikeTweetFind(p)
                         \/ UnlikeTweetUpdate(p)
    \/ \E p \in Procs : FollowUserStep(p)
    \/ \E p \in Procs : MarkStep(p)

SpecMarks == InitSerial /\ [][NextMarks]_vars

\* ---- socket connections of clients with and without a valid token ---------------
NextSockets ==
    \/ \E s \in SocketIds, token \in Handshakes : SocketHandshake(s, token)
    \/ \E s \in SocketIds : SocketLookup(s)
    \/ \E s \in SocketIds : SocketDisconnect(s)

SpecSockets == EmptyStore /\ [][NextSockets]_vars

\* ---- trending hashtags of a store with a tweet posted seven days ago ------------
\* the tweet "#t" of user 1, posted TrendDays ago and liked by user 2
TrendSeed ==
    [NewTweet(1, <<"#", "t">>, 1, NoTweet, NoTweet, {})
        EXCEPT !.createdAt = 0 - TrendDays, !.likes = {2}, !.engagementCount.likes = 1]

TrendContents ==
    {<<"#", "t">>, <<"#", "u">>, <<"#", "u", " ", "#", "t">>, <<"#", "u", " ", "#", "U">>}

InitTrends ==
    /\ users = [u \in Users |-> NewUser]
    /\ tweets = [t \in TweetIds |-> IF t = 1 THEN TrendSeed ELSE NullTweet]
    /\ notifications = SetToBag({NewNotification(1, 2, "like", 1, Snippet(TrendSeed.content))})
    /\ reqs = [p \in Procs |-> IdleReq]
    /\ lastResponse = IdleReq
    /\ issued = 0
    /\ emitted = {}
    /\ faulty = FALSE
    /\ ServerStart

TrendsQuiet == AllQuiet /\ lastResponse.op # "getTrendingHashtags"

NextTrends ==
    \/ \E p \in Procs, actor \in Users, content \in TrendContents :
          /\ issued + 1 < MaxTrend
          /\ TrendsQuiet
          /\ StartCreate(p, actor, [BlankBody EXCEPT !.content = content])
    \/ \E p \in Procs, op \in {"likeTweet", "deleteTweet"}, actor \in Users, id \in TweetIds :
          /\ issued + 1 < MaxTrend
          /\ TrendsQuiet
          /\ StartEngage(p, op, actor, id)
    \/ \E p \in Procs, limit \in {0, 1, 2} :
          /\ issued < MaxTrend
          /\ TrendsQuiet
          /\ StartTrends(p, limit)
    \/ TrendsQuiet /\ Tick
    \/ \E p \in Procs : \/ CreateTweetSave(p)
                         \/ CreateTweetRefetch(p)
                         \/ CreateTweetPopulate(p)
                         \/ CreateTweetRespond(p)
    \/ \E p \in Procs : \/ LikeTweetFind(p)
                         \/ LikeTweetUpdate(p)
                         \/ LikeTweetNotify(p)
                         \/ LikeTweetEmit(p)
                         \/ DeleteTweetFind(p)
                         \/ DeleteTweetUpdate(p)
    \/ \E p \in Procs : GetTrendingHashtags(p)

SpecTrends == InitTrends /\ [][NextTrends]_vars

\* ---- registrations, overlapping --------------------------------------------------
\* the name of user 1 and two new names; the address of user 1, gmail addresses
\* that differ in dots and case, and another address with a dot
RegisterBodies ==
    [username : {Username(1), <<"t">>, <<"t", "t">>},
     email : {Identity(1).email,
              <<"t", ".", "u", "@">> \o GmailDomain,
              <<"t", "u", "@">> \o GmailDomain,
              <<"T", "U", "@">> \o GmailDomain,
              <<"t", ".", "u", "@", "x", ".", "i", "o">>}]

NextRegister ==
    \/ \E p \in Procs, body \in RegisterBodies :
          /\ issued < MaxRegister
          /\ StartRegister(p, body)
    \/ \E p \in Procs : RegisterFind(p)
    \/ \E p \in Procs : RegisterSave(p)

SpecRegister == EmptyStore /\ [][NextRegister]_vars

Init == EmptyStore

Next ==
    \/ \E p \in Procs, op \in EngageOps, actor \in Users, id \in TweetIds :
          /\ issued < MaxAll
          /\ StartEngage(p, op, actor, id)
    \/ \E p \in Procs, op \in FollowOps, actor \in Users, username \in Users :
          /\ issued < MaxAll
          /\ StartFollow(p, op, actor, username)
    \/ \E p \in Procs, actor \in Users, body \in SerialBodies :
          /\ issued < MaxAll
          /\ StartCreate(p, actor, body)
    \/ \E p \in Procs : EngageStep(p)
    \/ \E p \in Procs : FollowStep(p)
    \/ \E p \in Procs : CreateStep(p)

Spec == Init /\ [][Next]_vars

\* ==== properties of the engagement requests ================================
Tweet(id) == tweets[id]

\* no other request on the tweet of request p is being handled
OthersQuietOn(p) ==
    \A q \in Procs \ {p} : ~(InFlight(q) /\ reqs[q].id = reqs[p].id)

\* request p takes its step from position pc in this transition
StepsFrom(p, pc) == reqs[p].pc = pc /\ reqs'[p] # reqs[p]

\* the persisted notifications of one recipient, sender, type and tweet
Matching(B, recipient, sender, type, tweet) ==
    LET S == {n \in BagToSet(B) : /\ n.recipient = recipient
                                  /\ n.sender = sender
                                  /\ n.type = type
                                  /\ n.tweet = tweet}
    IN [n \in S |-> B[n]]

NotifCount(B, recipient, sender, type, tweet) ==
    BagCardinality(Matching(B, recipient, sender, type, tweet))

\* C1: for every tweet the number of users in likes equals engagementCount.likes
\* and the number of users in retweets equals engagementCount.retweets, in every
\* reachable state, also when requests of one actor on one tweet overlap.
C1_CountsEqualSets ==
    \A t \in TweetIds :
        Tweet(t).exists =>
            /\ Cardinality(Tweet(t).likes) = Tweet(t).engagementCount.likes
            /\ Cardinality(Tweet(t).retweets) = Tweet(t).engagementCount.retweets

\* the response of the request that takes its last step in this transition
Answers(p, status, message) ==
    /\ reqs'[p] = IdleReq
    /\ lastResponse' = [reqs[p] EXCEPT !.pc = "done", !.status = status,
                                       !.message = message]

C5_Rejected(p, message) ==
    /\ Answers(p, 400, message)
    /\ tweets' = tweets
    /\ notifications' = notifications

\* C5: with no other request on the tweet in flight, a like (retweet) by an actor
\* who is already in likes (retweets) answers AlreadyDone and an unlike
\* (undo-retweet) by an actor who is not answers NotDone, and the tweets, their
\* counters and the stored notifications are unchanged.
C5_RepeatIsRejected ==
    [][\A p \in Procs :
         LET r == reqs[p]
             tweet == FindById(r.id)
         IN (/\ StepsFrom(p, "find")
             /\ OthersQuietOn(p)
             /\ tweet.exists
             /\ ~tweet.isDeleted)
            => /\ (r.op = "likeTweet" /\ r.actor \in tweet.likes)
                    => C5_Rejected(p, "AlreadyDone")
               /\ (r.op = "retweetTweet" /\ r.actor \in tweet.retweets)
                    => C5_Rejected(p, "AlreadyDone")
               /\ (r.op = "unlikeTweet" /\ r.actor \notin tweet.likes)
                    => C5_Rejected(p, "NotDone")
               /\ (r.op = "undoRetweet" /\ r.actor \notin tweet.retweets)
                    => C5_Rejected(p, "NotDone")]_vars

\* a like by an actor who is in likes has been answered AlreadyDone
C5_Witness ==
    /\ lastResponse.op = "likeTweet"
    /\ lastResponse.message = "AlreadyDone"
    /\ lastResponse.actor \in Tweet(lastResponse.id).likes
    /\ Cardinality(Tweet(lastResponse.id).likes) = Tweet(lastResponse.id).engagementCount.likes
    /\ AllQuiet

\* C6: the update of a like puts the actor into likes and, when the tweet is as
\* the like read it, adds exactly the actor and 1 to the counter; the update of
\* an unlike takes the actor out of likes; an unlike by the actor of the like
\* answered last, on the tweet as that like left it, restores likes and
\* engagementCount.likes to the values the like had read.
C6_LikeUnlikeRoundTrip ==
    [][\A p \in Procs :
         LET r == reqs[p]
             like == lastResponse
         IN
         /\ (r.op = "likeTweet" /\ StepsFrom(p, "update"))
               => /\ r.actor \in tweets'[r.id].likes
                  /\ tweets[r.id] = r.tweet
                        => /\ tweets'[r.id].likes = r.tweet.likes \cup {r.actor}
                           /\ tweets'[r.id].engagementCount.likes =
                                  r.tweet.engagementCount.likes + 1
         /\ (r.op = "unlikeTweet" /\ StepsFrom(p, "update"))
               => /\ r.actor \notin tweets'[r.id].likes
                  /\ Answers(p, 200, "ok")
                  /\ (/\ like.op = "likeTweet"
                      /\ like.status = 200
                      /\ like.actor = r.actor
                      /\ like.id = r.id
                      /\ tweets[r.id].likes = like.tweet.likes \cup {r.actor}
                      /\ tweets[r.id].engagementCount.likes =
                             like.tweet.engagementCount.likes + 1)
                     => /\ tweets'[r.id].likes = like.tweet.likes
                        /\ tweets'[r.id].engagementCount.likes =
                               like.tweet.engagementCount.likes]_vars

\* a successful unlike has just undone the like the actor had made
C6_Witness ==
    LET r == lastResponse IN
    /\ r.op = "unlikeTweet"
    /\ r.status = 200
    /\ r.actor \in r.tweet.likes
    /\ r.actor \notin Tweet(r.id).likes
    /\ Tweet(r.id).likes = r.tweet.likes \ {r.actor}
    /\ Tweet(r.id).engagementCount.likes = r.tweet.engagementCount.likes - 1
    /\ Tweet(r.id).engagementCount.likes = Cardinality(Tweet(r.id).likes)

\* C7: engagementCount.likes and engagementCount.retweets of every tweet are
\* never negative.
C7_CountsNotNegative ==
    \A t \in TweetIds :
        /\ Tweet(t).engagementCount.likes >= 0
        /\ Tweet(t).engagementCount.retweets >= 0

\* C8: every successful like of a tweet T of author B by a user A other than B
\* persists exactly one new like notification with recipient B, sender A and
\* tweet T; a like answered AlreadyDone leaves the notifications unchanged.
C8_LikeNotifiesAuthorOnce ==
    [][\A p \in Procs :
         LET r == reqs[p] IN
         r.op = "likeTweet" =>
            /\ (StepsFrom(p, "update") /\ tweets[r.id].author # r.actor)
                  => reqs'[p].pc = "notify"
            /\ StepsFrom(p, "notify")
                  => NotifCount(notifications', tweets[r.id].author, r.actor, "like", r.id)
                       = NotifCount(notifications, tweets[r.id].author, r.actor, "like", r.id) + 1
            /\ (StepsFrom(p, "find") /\ lastResponse'.message = "AlreadyDone")
                  => notifications' = notifications]_vars

\* C9: the snippet a like or a retweet builds from the content of the tweet has
\* at most 100 characters; content of up to 100 characters is copied whole,
\* longer content is cut and ends with an ellipsis.
C9_SnippetFits ==
    \A p \in Procs :
        (reqs[p].op \in AddOps /\ reqs[p].pc = "notify") =>
            LET content == reqs[p].updatedTweet.content
                snippet == reqs[p].notification.tweetSnippet
            IN /\ Len(snippet) <= SnippetMaxLength
               /\ Len(content) <= SnippetCut => snippet = content
               /\ Len(content) > SnippetCut =>
                     SubSeq(snippet, Len(snippet) - 2, Len(snippet)) = Ellipsis

\* ==== properties of the follow requests =====================================
\* C2: in every reachable state, also while a follow or an unfollow is being
\* handled, b is in a.following exactly when a is in b.followers.
C2_EdgesSymmetric ==
    \A a, b \in Users : (b \in users[a].following) <=> (a \in users[b].followers)

NoFollowInFlight ==
    \A p \in Procs : ~(InFlight(p) /\ reqs[p].op \in FollowOps)

\* C3: whenever no follow or unfollow request is in flight, b is in a.following
\* exactly when a is in b.followers.
C3_EdgesSymmetricAtRest == NoFollowInFlight => C2_EdgesSymmetric

\* ==== properties of createTweet ==============================================
RepliesTo(t) == {r \in TweetIds : Tweet(r).exists /\ Tweet(r).inReplyTo = t}

QuotesOf(t) == {q \in TweetIds : Tweet(q).exists /\ Tweet(q).quotedTweet = t}

\* C4: for every tweet T, at all times engagementCount.replies of T is the number
\* of tweets whose inReplyTo is T and engagementCount.quotes of T is the number
\* of tweets whose quotedTweet is T.
C4_RepliesAndQuotesCounted ==
    \A t \in TweetIds :
        Tweet(t).exists =>
            /\ Tweet(t).engagementCount.replies = Cardinality(RepliesTo(t))
            /\ Tweet(t).engagementCount.quotes = Cardinality(QuotesOf(t))

\* ==== properties of the notifications =========================================
\* the notifications a handler has built and not yet saved
Building(p) ==
    IF reqs[p].pc \in {"notify", "replyNotify", "quoteNotify"}
    THEN {reqs[p].notification}
    ELSE IF reqs[p].op = "createTweet" /\ reqs[p].pc = "mentions"
    THEN reqs[p].pending
    ELSE {}

\* C10: no notification, stored or built by a handler, has its sender as its
\* recipient; a follow of oneself does not get past its checks and is answered
\* InvalidOperation.
C10_NoSelfNotification ==
    /\ \A n \in BagToSet(notifications) : n.sender # n.recipient
    /\ \A p \in Procs :
          /\ \A n \in Building(p) : n.sender # n.recipient
          /\ (reqs[p].op = "followUser" /\ reqs[p].username = reqs[p].actor)
                => reqs[p].pc = "find"
    /\ (lastResponse.op = "followUser" /\ lastResponse.username = lastResponse.actor)
          => /\ lastResponse.status = 400
             /\ lastResponse.message = "InvalidOperation"

\* a user has liked their own tweet and no notification has been added
C10_Witness ==
    /\ lastResponse.op = "likeTweet"
    /\ lastResponse.status = 200
    /\ Tweet(lastResponse.id).author = lastResponse.actor
    /\ lastResponse.actor \in Tweet(lastResponse.id).likes
    /\ notifications = SeedNotifications

\* ==== properties of the reads ================================================
\* the number of tweets of S created no earlier than t
RankNewest(S, t) == Cardinality({u \in S : u >= t})

\* the number of tweets of S created no later than t
RankOldest(S, t) == Cardinality({u \in S : u <= t})

\* the ranks that a page holds
OnPage(rank, page, limit) ==
    LET pg == IF page = 0 THEN DefaultPage ELSE page
        lim == IF limit = 0 THEN DefaultLimit ELSE limit
    IN rank > (pg - 1) * lim /\ rank <= pg * lim

\* the tweets a timeline of user u is made of
TimelineOf(u, includeReplies) ==
    {t \in TweetIds :
        /\ Tweet(t).exists
        /\ Tweet(t).author = u \/ Tweet(t).author \in users[u].following
        /\ ~Tweet(t).isDeleted
        /\ includeReplies \/ Tweet(t).inReplyTo = NoTweet}

\* C14: a timeline answered to user U lists, without repetition and newest
\* first, exactly the tweets of its page among the tweets that are by U or by a
\* user U follows, are not deleted and, unless includeReplies, reply to nothing.
C14_TimelineIsFollowedTweets ==
    LET r == lastResponse
        all == TimelineOf(r.actor, r.includeReplies)
    IN (r.op = "getTimeline" /\ AllQuiet) =>
          /\ r.status = 200
          /\ \A i, j \in 1..Len(r.result) : i < j => r.result[i] > r.result[j]
          /\ \A t \in TweetIds :
                t \in Range(r.result)
                   <=> (t \in all /\ OnPage(RankNewest(all, t), r.page, r.limit))

\* user A followed B, B then posted a tweet, and A's timeline lists it
C14_Witness ==
    LET r == lastResponse IN
    /\ r.op = "getTimeline"
    /\ AllQuiet
    /\ \E t \in Range(r.result) :
          /\ Tweet(t).author # r.actor
          /\ Tweet(t).author \in users[r.actor].following
          /\ t # 1

\* the direct replies to tweet id that are not deleted
DirectReplies(id) ==
    {t \in TweetIds : Tweet(t).exists /\ Tweet(t).inReplyTo = id /\ ~Tweet(t).isDeleted}

After(p) == IF reqs'[p] = IdleReq THEN lastResponse' ELSE reqs'[p]

\* the primary mutation of the request with locals r is in the stores T and U
PrimaryApplied(r, T, U) ==
    CASE r.op \in AddOps -> T[r.id] = r.updatedTweet
      [] r.op = "followUser" -> /\ r.username \in U[r.actor].following
                                /\ r.actor \in U[r.username].followers
      [] r.op = "createTweet" -> /\ T[r.id].exists
                                 /\ T[r.id].author = r.actor
                                 /\ T[r.id].content = Trim(r.body.content)
      [] OTHER -> TRUE

\* the notification:new events that carry notification n
PushesOf(E, n) == {ev \in E : ev.event = "notification:new" /\ ev.notification = n}

\* C11: when persisting or pushing a notification or recomputing the trends
\* fails during like, retweet, follow or createTweet, the failing step changes
\* no tweet and no user, the failed notification is neither saved nor pushed by
\* a later step of the request, and the request answers 200 or 201 with its
\* primary mutation in the store.
C11_SideEffectFailureIsSwallowed ==
    [][\A p \in Procs :
         (InFlight(p) /\ reqs'[p] # reqs[p]) =>
            LET r == reqs[p]
                after == After(p)
            IN /\ (after.failed # r.failed \/ after.trendsFailed # r.trendsFailed)
                    => tweets' = tweets /\ users' = users
               /\ \A n \in r.failed :
                     /\ n \in after.failed
                     /\ n \notin after.pending \cup after.emitting
                     /\ CopiesIn(n, notifications') = CopiesIn(n, notifications)
                     /\ PushesOf(emitted', n) = PushesOf(emitted, n)
               /\ (reqs'[p] = IdleReq /\ (after.failed # {} \/ after.trendsFailed))
                    => /\ after.status \in {200, 201}
                       /\ PrimaryApplied(after, tweets', users')]_vars

\* a like was answered 200 although its notification could not be saved or pushed
C11_Witness ==
    /\ lastResponse.op = "likeTweet"
    /\ lastResponse.status = 200
    /\ lastResponse.failed # {}
    /\ lastResponse.actor \in Tweet(lastResponse.id).likes

\* the notification that the author of tweet id is due from the request with
\* locals r: none when there is no such tweet or the author is the actor
DueToAuthor(r, id, type) ==
    IF FindById(id).exists /\ FindById(id).author # r.actor
    THEN {NewNotification(FindById(id).author, r.actor, type, r.id,
                          Snippet(FindById(id).content))}
    ELSE {}

\* the notifications that the action of the answered request with locals r calls for
Due(r) ==
    CASE r.op \in AddOps \cup {"followUser"} -> {r.notification} \ {NoNotification}
      [] r.op = "createTweet" ->
            DueToAuthor(r, r.body.inReplyToId, "reply")
               \cup DueToAuthor(r, r.body.quotedTweetId, "quote")
               \cup {NewNotification(m, r.actor, "mention", r.id, Snippet(Tweet(r.id).content)) :
                        m \in Tweet(r.id).mentions \ {r.actor}}
      [] OTHER -> {}

\* a request with locals r has been answered with success
Succeeded(r) == r.pc = "done" /\ r.status \in {200, 201}

AnswersAhead(p) ==
    /\ reqs'[p] = IdleReq
    /\ Succeeded(lastResponse')
    /\ lastResponse'.failed = reqs[p].failed
    /\ notifications' = notifications
    /\ emitted' = emitted

\* a request that has committed its primary mutation and has a notification to
\* persist or to push
FanOutPending(p) ==
    reqs[p].pc \in {"notify", "emit", "replyNotify", "replyEmit", "quoteNotify",
                    "quoteEmit", "mentions"}

C13_PushAfterPersistToRecipient ==
    [][\A ev \in emitted' \ emitted :
          ev.event = "notification:new" =>
             /\ ev.room = ev.notification.recipient
             /\ CopiesIn(ev.notification, notifications) >= 1
             /\ \E p \in Procs :
                   /\ InFlight(p)
                   /\ reqs'[p] # reqs[p]
                   /\ ev.notification.sender = reqs[p].actor
                   /\ ev.notification \notin reqs[p].failed
                   /\ PrimaryApplied(reqs[p], tweets, users)]_vars

\* a follow notification was pushed to the room of the followed user
C13_Witness ==
    \E ev \in emitted :
        /\ ev.event = "notification:new"
        /\ ev.notification.type = "follow"
        /\ ev.room = ev.notification.recipient
        /\ ev.notification.sender \in users[ev.room].followers
        /\ CopiesIn(ev.notification, notifications) >= 1

\* ==== properties of createTweet ==============================================
\* id is given and names no stored tweet
Dangling(id) == id # NoTweet /\ ~FindById(id).exists

\* C16: a createTweet whose inReplyToId or quotedTweetId names no existing tweet
\* answers 201, stores that reference as null on the new tweet, changes no
\* counter of any tweet in the step that would count it, and stores no reply or
\* quote notification for the new tweet.
C16_DanglingRefStoredAsNull ==
    [][\A p \in Procs :
         LET r == reqs[p] IN
         (r.op = "createTweet" /\ reqs'[p] # r) =>
            /\ (r.pc = "incReplies" /\ Dangling(r.body.inReplyToId)) => tweets' = tweets
            /\ (r.pc = "incQuotes" /\ Dangling(r.body.quotedTweetId)) => tweets' = tweets
            /\ (r.pc = "trends" /\ Dangling(r.body.inReplyToId))
                  => /\ Answers(p, 201, "ok")
                     /\ Tweet(r.id).inReplyTo = NoTweet
                     /\ NotifCount(notifications', r.parentTweetAuthorId, r.actor,
                                   "reply", r.id) = 0
            /\ (r.pc = "trends" /\ Dangling(r.body.quotedTweetId))
                  => /\ Answers(p, 201, "ok")
                     /\ Tweet(r.id).quotedTweet = NoTweet
                     /\ NotifCount(notifications', r.quotedTweetAuthorId, r.actor,
                                   "quote", r.id) = 0]_vars

\* C17: the hashtags of a stored tweet are the matches of its content in lower
\* case, each distinct hashtag once: content with "#T" and "#t" has the
\* one-element list <<"t">>.
C17_HashtagsLowerCasedOnce ==
    \A id \in TweetIds :
        Tweet(id).exists =>
            LET hashtags == Tweet(id).hashtags
                matches == Matches("#", Tweet(id).content)
            IN /\ \A i \in 1..Len(hashtags) : Lower(hashtags[i]) = hashtags[i]
               /\ Range(hashtags) = {Lower(matches[k]) : k \in 1..Len(matches)}
               /\ \A i, j \in 1..Len(hashtags) : hashtags[i] = hashtags[j] => i = j

\* the @username tokens of a content: a run of word characters after an "@"
Tokens(content) == PotentialUsernames(Trim(content))

\* some user has the name, whatever the case of its letters
Names(name) == \E u \in Users : Lower(Username(u)) = Lower(name)

\* the mention notifications stored for tweet id
MentionsStored(id) ==
    {n \in BagToSet(notifications) : n.type = "mention" /\ n.tweet = id}

\* C18: a createTweet whose content has an @username token that matches no user
\* answers 201; the mentions of the stored tweet hold only ids of users whose
\* name is a token of the content, and every mention notification of the tweet
\* goes to one of them.
C18_UnresolvedMentionIsDropped ==
    LET r == lastResponse IN
    (r.op = "createTweet" /\ r.pc = "done" /\ AllQuiet
       /\ ContentAccepted(r.body.content)) =>
          /\ r.status = 201
          /\ Tweet(r.id).mentions \subseteq Users
          /\ \A m \in Tweet(r.id).mentions :
                \E name \in Tokens(r.body.content) : Lower(name) = Lower(Username(m))
          /\ \A n \in MentionsStored(r.id) : n.recipient \in Tweet(r.id).mentions

\* a tweet whose only token names no user was created with no mention and no
\* notification
C18_Witness ==
    LET r == lastResponse IN
    /\ r.op = "createTweet"
    /\ r.status = 201
    /\ Tokens(r.body.content) # {}
    /\ \A name \in Tokens(r.body.content) : ~Names(name)
    /\ Tweet(r.id).mentions = {}
    /\ MentionsStored(r.id) = {}

\* C19: a createTweet answered 201 has stored one mention notification for every
\* resolved mentioned user other than the author, unless the database or the
\* socket server failed for that recipient; a failure for one recipient leaves
\* the notifications of the others and the answer as they are.
C19_OneMentionNotificationEach ==
    LET r == lastResponse IN
    (r.op = "createTweet" /\ r.pc = "done" /\ r.status # 422) =>
        /\ r.status = 201
        /\ \A m \in Tweet(r.id).mentions \ {r.actor} :
              \/ faulty /\ \E n \in r.failed : n.recipient = m
              \/ NotifCount(notifications, m, r.actor, "mention", r.id) = 1

\* the number of characters of a content between its leading and trailing spaces
TrimmedLength(content) ==
    IF \A i \in 1..Len(content) : content[i] = " " THEN 0
    ELSE LET first == CHOOSE i \in 1..Len(content) :
                          content[i] # " " /\ \A j \in 1..(i - 1) : content[j] = " "
             last == CHOOSE i \in 1..Len(content) :
                         content[i] # " " /\ \A j \in (i + 1)..Len(content) : content[j] = " "
         IN last - first + 1

\* C20: a createTweet whose content has a trimmed length from 1 to 280 stores the
\* tweet and answers 201; one whose content has the trimmed length 0, or 281 and
\* more, answers 422 with an error entry of field content, stores no tweet and
\* no notification and emits no event.
C20_ContentLengthBoundary ==
    [][\A p \in Procs :
         LET r == reqs[p]
             length == TrimmedLength(r.body.content)
         IN (r.op = "createTweet" /\ reqs'[p] # r) =>
               IF length >= 1 /\ length <= 280
               THEN /\ r.pc = "save"
                       => /\ reqs'[p].pc = "refetch"
                          /\ tweets'[reqs'[p].id].exists
                          /\ Len(tweets'[reqs'[p].id].content) = length
                    /\ reqs'[p] = IdleReq => Answers(p, 201, "ok")
               ELSE /\ r.pc = "save"
                    /\ reqs'[p] = IdleReq
                    /\ lastResponse'.status = 422
                    /\ lastResponse'.errors = {"content"}
                    /\ tweets' = tweets
                    /\ notifications' = notifications
                    /\ emitted' = emitted]_vars

\* a content of 280 characters between spaces was stored as a tweet of 280
\* characters and answered 201
C20_Witness ==
    LET r == lastResponse IN
    /\ r.op = "createTweet"
    /\ r.status = 201
    /\ TrimmedLength(r.body.content) = 280
    /\ Len(r.body.content) > 280
    /\ Len(Tweet(r.id).content) = 280

\* ==== properties of deleteTweet ==================================================
\* C21: a deleteTweet of a tweet that does not exist answers 404 and one by a
\* user who is not the author answers 403, both leaving every tweet as it is;
\* only a deleteTweet by the author reaches the update, which sets isDeleted
\* and answers 200.
C21_OnlyAuthorDeletes ==
    [][\A p \in Procs :
         LET r == reqs[p]
             tweet == FindById(r.id)
         IN (r.op = "deleteTweet" /\ reqs'[p] # r) =>
              /\ (r.pc = "find" /\ ~tweet.exists)
                    => Answers(p, 404, "NotFound") /\ tweets' = tweets
              /\ (r.pc = "find" /\ tweet.exists /\ tweet.author # r.actor)
                    => Answers(p, 403, "Forbidden") /\ tweets' = tweets
              /\ (r.pc = "find" /\ tweet.exists /\ tweet.author = r.actor)
                    => reqs'[p].pc = "update" /\ tweets' = tweets
              /\ r.pc = "update"
                    => /\ tweet.author = r.actor
                       /\ tweets'[r.id].isDeleted
                       /\ Answers(p, 200, "ok")]_vars

\* a deleteTweet by a user who is not the author was answered 403 and the tweet
\* is not deleted
C21_Witness ==
    LET r == lastResponse IN
    /\ r.op = "deleteTweet"
    /\ r.status = 403
    /\ Tweet(r.id).exists
    /\ Tweet(r.id).author # r.actor
    /\ ~Tweet(r.id).isDeleted

\* C22: the update of a deleteTweet changes isDeleted of the deleted tweet and
\* nothing else: every other field of it (likes, retweets, counters, references),
\* every other tweet (the counters of its parent and of the tweet it quotes, its
\* replies and quotes), the users and the stored notifications stay as they are.
C22_DeleteChangesOnlyFlag ==
    [][\A p \in Procs :
         LET r == reqs[p] IN
         (r.op = "deleteTweet" /\ reqs'[p] # r) =>
            /\ \A t \in TweetIds :
                  /\ [tweets'[t] EXCEPT !.isDeleted = tweets[t].isDeleted] = tweets[t]
                  /\ tweets'[t].isDeleted # tweets[t].isDeleted
                        => t = r.id /\ r.pc = "update"
            /\ users' = users
            /\ notifications' = notifications
            /\ emitted' = emitted]_vars

\* a reply was deleted: it keeps its reference and the replies counter of its
\* parent still counts it
C22_Witness ==
    LET r == lastResponse IN
    /\ r.op = "deleteTweet"
    /\ r.status = 200
    /\ Tweet(r.id).isDeleted
    /\ Tweet(r.id).inReplyTo \in TweetIds
    /\ Tweet(Tweet(r.id).inReplyTo).engagementCount.replies = 1

\* ==== properties of requests on a missing or deleted tweet ========================
\* C23: a likeTweet, retweetTweet, bookmarkTweet, getTweet or getTweetThread on
\* a tweet that does not exist or is soft-deleted answers 404 in its first step
\* and changes no tweet, no user and no notification and emits nothing.
C23_MissingOrDeletedIsNotFound ==
    [][\A p \in Procs :
         LET r == reqs[p]
             tweet == FindById(r.id)
         IN (/\ r.op \in AddOps \cup {"bookmarkTweet"} \cup ViewOps
             /\ StepsFrom(p, "find")
             /\ ~tweet.exists \/ tweet.isDeleted)
            => /\ Answers(p, 404, "NotFound")
               /\ tweets' = tweets
               /\ users' = users
               /\ notifications' = notifications
               /\ emitted' = emitted]_vars

\* a bookmarkTweet of a deleted tweet was answered 404 and the tweet is in no
\* bookmark set
C23_Witness ==
    LET r == lastResponse IN
    /\ r.op = "bookmarkTweet"
    /\ r.status = 404
    /\ Tweet(r.id).exists
    /\ Tweet(r.id).isDeleted
    /\ \A u \in Users : r.id \notin users[u].bookmarks

\* C25: a bookmarkTweet of a tweet the actor has bookmarked answers AlreadyDone
\* and an unbookmarkTweet of a tweet the actor has not bookmarked answers
\* NotDone, both without a change; no bookmark request changes a tweet.
C25_RepeatBookmarkIsRejected ==
    [][\A p \in Procs :
         LET r == reqs[p] IN
         (r.op \in BookmarkOps /\ reqs'[p] # r) =>
            /\ tweets' = tweets
            /\ (/\ r.op = "bookmarkTweet"
                /\ r.pc = "find"
                /\ FindLive(r.id).exists
                /\ r.id \in users[r.actor].bookmarks)
                  => Answers(p, 400, "AlreadyDone") /\ users' = users
            /\ (/\ r.op = "unbookmarkTweet"
                /\ r.id \notin users[r.actor].bookmarks)
                  => Answers(p, 400, "NotDone") /\ users' = users]_vars

\* C28: a getTweet or getTweetThread of a tweet that exists and is not deleted
\* answers 200, also when the write of the impressions counter fails.
C28_ImpressionFailureKeepsRead ==
    [][\A p \in Procs :
         LET r == reqs[p] IN
         (r.op \in ViewOps /\ r.pc = "respond" /\ reqs'[p] = IdleReq)
            => Answers(p, 200, "ok")]_vars

\* ==== properties of rejected follow requests ======================================
\* C24: with no other request in flight, a followUser of the actor itself
\* answers InvalidOperation, a followUser of a user the actor follows answers
\* AlreadyDone and an unfollowUser of a user the actor does not follow answers
\* NotDone; each leaves the users (edges), the tweets and the notifications as
\* they are and emits no event.
C24_FollowRejections ==
    [][\A p \in Procs :
         LET r == reqs[p]
             target == r.username
             rejected(message) ==
                 /\ Answers(p, 400, message)
                 /\ users' = users
                 /\ tweets' = tweets
                 /\ notifications' = notifications
                 /\ emitted' = emitted
         IN (r.op \in FollowOps /\ StepsFrom(p, "find") /\ target \in Users) =>
              /\ (r.op = "followUser" /\ target = r.actor)
                    => rejected("InvalidOperation")
              /\ (r.op = "followUser" /\ target # r.actor
                     /\ target \in users[r.actor].following)
                    => rejected("AlreadyDone")
              /\ (r.op = "unfollowUser" /\ target \notin users[r.actor].following)
                    => rejected("NotDone")]_vars

\* a followUser of a user the actor follows was answered AlreadyDone and the
\* edge is still there, in both directions
C24_Witness ==
    LET r == lastResponse IN
    /\ r.op = "followUser"
    /\ r.message = "AlreadyDone"
    /\ r.username \in users[r.actor].following
    /\ r.actor \in users[r.username].followers

\* ==== properties of the read flag of notifications ================================
\* the stored documents that equal n but for the read flag
Both(B, n) == Copies(B, [n EXCEPT !.read = FALSE]) + Copies(B, [n EXCEPT !.read = TRUE])

\* C26: no step removes a notification or changes a field of it other than
\* read, and the number of read copies of a notification changes only in the
\* update of a markNotificationRead or markAllNotificationsRead of its
\* recipient, which changes nothing else of it; so a request of its sender
\* never changes a notification that is stored.
C26_OnlyRecipientMarksRead ==
    [][\A n \in BagToSet(notifications) \cup BagToSet(notifications') :
         /\ Both(notifications', n) >= Both(notifications, n)
         /\ Copies(notifications', MarkedRead(n)) # Copies(notifications, MarkedRead(n))
               => \E p \in Procs :
                     /\ reqs[p].op \in MarkOps
                     /\ StepsFrom(p, "update")
                     /\ reqs[p].actor = n.recipient
                     /\ Both(notifications', n) = Both(notifications, n)]_vars

\* a notification was marked read by its recipient while another notification
\* of that recipient is still unread
C26_Witness ==
    LET r == lastResponse IN
    /\ r.op = "markNotificationRead"
    /\ r.notification.recipient = r.actor
    /\ BagIn(MarkedRead(r.notification), notifications)
    /\ \E m \in BagToSet(notifications) : m.recipient = r.actor /\ ~m.read

\* ==== properties of the socket connections ========================================
\* C27: a connected socket has presented a valid token of an existing user and
\* is in exactly one room, the one of that user id; a socket that presented no
\* token, an invalid token or the token of an unknown user is rejected, and a
\* socket that is not connected is in no room.
C27_AcceptedSocketJoinsOwnRoom ==
    \A s \in SocketIds :
        LET socket == sockets[s]
            known == socket.token.kind = "valid" /\ socket.token.id \in Users
        IN /\ socket.state = "connected"
                 => /\ known
                    /\ socket.user = socket.token.id
                    /\ socket.rooms = {socket.token.id}
           /\ socket.state # "connected" => socket.rooms = {}
           /\ (~known /\ socket.state \notin {"new", "lookup"})
                 => socket.state = "rejected"

\* one socket is connected and in the room of its user, another that presented
\* the token of an unknown user is rejected
C27_Witness ==
    \E s, q \in SocketIds :
        /\ sockets[s].state = "connected"
        /\ sockets[s].rooms = {sockets[s].user}
        /\ sockets[q].state = "rejected"
        /\ sockets[q].token.kind = "valid"

\* ==== properties of the trending hashtags =========================================
\* the places where hashtag h stands in the hashtags of a tweet that was created
\* in the last TrendDays days and is not deleted
Occurrences(h) ==
    {place \in UNION {{<<t, i>> : i \in 1..Len(tweets[t].hashtags)} : t \in TweetIds} :
        /\ tweets[place[1]].exists
        /\ ~tweets[place[1]].isDeleted
        /\ now - tweets[place[1]].createdAt <= TrendDays
        /\ tweets[place[1]].hashtags[place[2]] = h}

RECURSIVE ScoreOf(_)
ScoreOf(places) ==
    IF places = {} THEN 0
    ELSE LET place == CHOOSE x \in places : TRUE
             count == tweets[place[1]].engagementCount
         IN count.likes + count.retweets + count.replies + ScoreOf(places \ {place})

TrendingNow == {h \in UNION {Range(tweets[t].hashtags) : t \in TweetIds} : Occurrences(h) # {}}

RECURSIVE DotsStripped(_)
DotsStripped(email) ==
    IF email = <<>> THEN <<>>
    ELSE IF Head(email) = "@" THEN email
    ELSE IF /\ Head(email) = "."
            /\ Len(email) > 10
            /\ SubSeq(email, Len(email) - 9, Len(email)) = <<"@">> \o GmailDomain
    THEN DotsStripped(Tail(email))
    ELSE <<Head(email)>> \o DotsStripped(Tail(email))

SameUser(a, b) ==
    a.username = b.username \/ DotsStripped(a.email) = DotsStripped(b.email)

\* C30: no two users have the same username or the same email after the dots of
\* a gmail.com address are stripped, also when registrations overlap; a step of
\* a registration whose username or address is that of a user answers 409 and
\* stores no user, and a save of one that is nobody's stores the user and
\* answers 201.
C30_UsersAreUnique ==
    [][/\ \A i, j \in 1..Len(accounts') : i # j => ~SameUser(accounts'[i], accounts'[j])
       /\ \A i \in 1..Len(accounts'), u \in Users : ~SameUser(accounts'[i], Identity(u))
       /\ \A p \in Procs :
            LET r == reqs[p]
                asked == [username |-> r.account.username,
                          email |-> Lower(r.account.email)]
                taken == \E user \in Registered : SameUser(asked, user)
            IN (r.op = "register" /\ reqs'[p] # r) =>
                 /\ taken => /\ Answers(p, 409, "Conflict")
                             /\ accounts' = accounts
                 /\ (~taken /\ r.pc = "save")
                       => /\ Answers(p, 201, "ok")
                          /\ Len(accounts') = Len(accounts) + 1]_vars

\* of two registrations with different usernames and gmail addresses that
\* differ only in dots, one is stored and the other was answered 409
C30_Witness ==
    LET r == lastResponse IN
    /\ r.op = "register"
    /\ r.status = 409
    /\ Len(accounts) = 1
    /\ r.account.username # accounts[1].username
    /\ r.account.email # accounts[1].email
    /\ DotsStripped(r.account.email) = accounts[1].email
    /\ issued = 2
    /\ AllQuiet

\* ==== properties of a deleted tweet =================================================
\* C33: once a tweet is deleted, a step of any request leaves its likes, its
\* retweets and the counters of both as they are, also when a like, an unlike, a
\* retweet or an undo of a retweet has found the tweet before the delete and
\* updates it afterwards.
C33_DeletedTweetKeepsEngagement ==
    [][\A t \in TweetIds :
         Tweet(t).isDeleted =>
            /\ tweets'[t].likes = Tweet(t).likes
            /\ tweets'[t].retweets = Tweet(t).retweets
            /\ tweets'[t].engagementCount.likes = Tweet(t).engagementCount.likes
            /\ tweets'[t].engagementCount.retweets = Tweet(t).engagementCount.retweets]_vars

\* C37: isDeleted of a tweet changes only from false to true: no step of any
\* request makes a deleted tweet live again, and a deleteTweet of the author on a
\* tweet that is already deleted is not turned away: it goes on to its update,
\* which changes no tweet and answers 200.
C37_DeletedStaysDeleted ==
    [][/\ \A t \in TweetIds : Tweet(t).isDeleted => tweets'[t].isDeleted
       /\ \A p \in Procs :
             LET r == reqs[p] IN
             /\ r.op = "deleteTweet"
             /\ reqs'[p] # r
             /\ r.id \in TweetIds
             /\ Tweet(r.id).exists
             /\ Tweet(r.id).isDeleted
             /\ Tweet(r.id).author = r.actor
             => /\ tweets' = tweets
                /\ r.pc = "find" => reqs'[p].pc = "update"
                /\ r.pc = "update" => Answers(p, 200, "ok")]_vars

\* the author has deleted a tweet that the request found deleted already
C37_Witness ==
    LET r == lastResponse IN
    /\ r.op = "deleteTweet"
    /\ r.status = 200
    /\ r.tweet.exists
    /\ r.tweet.isDeleted
    /\ Tweet(r.id).isDeleted

\* ==== properties of the connection registry =========================================
\* C35: connectedUsers holds an entry for a user id exactly when a connection of
\* that user is live, also when the user has several connections and they are
\* closed in any order.
C35_RegistryMatchesLiveSockets ==
    \A u \in Users :
       (\E entry \in connectedUsers : entry[1] = u)
          <=> (\E s \in SocketIds : sockets[s].state = "connected" /\ sockets[s].user = u)

\* ==== properties of the follow counters ==============================================
\* a stored counter as a reader takes it: a missing one counts as 0
CountOf(count) == IF count = Undefined THEN 0 ELSE count

\* C36: whenever no request is in flight, the stored followerCount of every user
\* is the size of the user's followers and the stored followingCount is the size
\* of the user's following.
C36_CountersMatchLists ==
    AllQuiet =>
       \A u \in Users :
          /\ CountOf(users[u].followerCount) = Cardinality(users[u].followers)
          /\ CountOf(users[u].followingCount) = Cardinality(users[u].following)

\* ==== properties of the protected routes =============================================
\* ---- requests with any token, one at a time, a user deactivated or none -----------
MaxProtect == 1

InitProtect ==
    /\ \E gone \in {{}} \cup {{u} : u \in Users} :
          users = [u \in Users |-> [NewUser EXCEPT !.isActive = u \notin gone]]
    /\ tweets = [t \in TweetIds |->
                    IF t = 1 THEN NewTweet(1, Text(3), 1, NoTweet, NoTweet, {})
                    ELSE NullTweet]
    /\ notifications = EmptyBag
    /\ reqs = [p \in Procs |-> IdleReq]
    /\ lastResponse = IdleReq
    /\ issued = 0
    /\ emitted = {}
    /\ faulty = FALSE
    /\ ServerStart

NextProtect ==
    \/ \E p \in Procs, op \in ProtectedOps \cap (EngageOps \cup BookmarkOps),
          token \in Handshakes, id \in TweetIds :
          /\ issued < MaxProtect
          /\ AllQuiet
          /\ Request(p, op, token, id, NoUser, BlankBody)
    \/ \E p \in Procs, token \in Handshakes, username \in Users :
          /\ issued < MaxProtect
          /\ AllQuiet
          /\ Request(p, "followUser", token, NoTweet, username, BlankBody)
    \/ \E p \in Procs, token \in Handshakes, body \in SerialBodies :
          /\ issued < MaxProtect
          /\ AllQuiet
          /\ Request(p, "createTweet", token, NoTweet, NoUser, body)
    \/ \E p \in Procs, op \in AuthOps \cup {"getTimeline"}, token \in Handshakes :
          /\ issued < MaxProtect
          /\ AllQuiet
          /\ Request(p, op, token, NoTweet, NoUser, BlankBody)
    \/ \E p \in Procs : AddStep(p)
    \/ \E p \in Procs : DeleteTweetFind(p) \/ DeleteTweetUpdate(p)
    \/ \E p \in Procs : BookmarkStep(p)
    \/ \E p \in Procs : FollowUserStep(p)
    \/ \E p \in Procs : CreateStep(p)
    \/ \E p \in Procs : GetTimelineFind(p) \/ GetTimelineRespond(p)
    \/ \E p \in Procs : GetCurrentUser(p)

SpecProtect == InitProtect /\ [][NextProtect]_vars

\* the token names a user that exists and is active
Good(token) ==
    /\ token.kind = "valid"
    /\ token.id \in Users
    /\ users[token.id].isActive

\* C31: a request of a protected route that carries no token, a token that does
\* not verify, or the token of a user that is gone or deactivated is answered 401
\* in the step it arrives, which starts no handler and changes nothing stored; a
\* handler only ever runs for the active user its token names.
C31_ProtectTurnsAway ==
    [][/\ issued' # issued =>
            \/ /\ lastResponse'.status = 401
               /\ ~Good(lastResponse'.token)
               /\ lastResponse'.op \in ProtectedOps
               /\ reqs' = reqs
               /\ <<users, tweets, notifications, emitted>>' =
                      <<users, tweets, notifications, emitted>>
            \/ /\ \E p \in Procs :
                     /\ ~InFlight(p)
                     /\ Good(reqs'[p].token)
                     /\ reqs'[p].actor = reqs'[p].token.id
            \/ /\ lastResponse'.op = "logout"
               /\ lastResponse'.status = 200
               /\ Good(lastResponse'.token)
       /\ \A p \in Procs :
             InFlight(p) /\ reqs'[p] # reqs[p] =>
                /\ Good(reqs[p].token)
                /\ reqs[p].actor = reqs[p].token.id
                /\ lastResponse' # lastResponse => lastResponse'.status # 401]_vars

\* the like of a deactivated user was answered 401
C31_Witness ==
    LET r == lastResponse IN
    /\ r.op = "likeTweet"
    /\ r.status = 401
    /\ r.token.kind = "valid"
    /\ r.token.id \in Users
    /\ ~users[r.token.id].isActive
    /\ AllQuiet

\* ==== properties of the recommendations ==============================================
\* ---- follows, unfollows and recommendations, one request at a time ----------------
MaxRecommend == 3

NextRecommend ==
    \/ \E p \in Procs, op \in FollowOps, actor \in Users, username \in Users :
          /\ issued + 1 < MaxRecommend
          /\ AllQuiet
          /\ StartFollow(p, op, actor, username)
    \/ \E p \in Procs, actor \in Users \cup {NoUser}, limit \in 0..NumUsers :
          /\ issued < MaxRecommend
          /\ AllQuiet
          /\ StartRecommend(p, actor, limit)
    \/ \E p \in Procs : FollowStep(p)
    \/ \E p \in Procs : GetRecommendedUsersFind(p) \/ GetRecommendedUsersFilter(p)

SpecRecommend == EmptyStore /\ [][NextRecommend]_vars

FollowerCount(u) == Cardinality(users[u].followers)

\* C32: the users an answered getRecommendedUsers lists are the first limit
\* users, by number of followers descending, of the users that are neither the
\* requester nor followed by the requester: none of them is the requester or
\* followed, none is listed twice, the list is shorter than limit only when
\* there are no more such users, it is in descending order of followers, and no
\* user left out has more followers than a listed one.
C32_RecommendedAreTopByFollowers ==
    LET r == lastResponse
        limit == OrDefault(r.limit, RecommendLimit)
        out == IF r.actor = NoUser THEN {}
               ELSE users[r.actor].following \cup {r.actor}
        candidates == Users \ out
        listed == Range(r.result) IN
    (AllQuiet /\ r.op = "getRecommendedUsers") =>
       /\ r.status = 200
       /\ listed \subseteq candidates
       /\ Cardinality(listed) = Len(r.result)
       /\ Len(r.result) = Min(limit, Cardinality(candidates))
       /\ \A i, j \in 1..Len(r.result) :
             i < j => FollowerCount(r.result[i]) >= FollowerCount(r.result[j])
       /\ \A u \in candidates \ listed, v \in listed : FollowerCount(v) >= FollowerCount(u)

\* ==== properties of a createTweet the store fails ====================================
\* ---- createTweet requests, one at a time, the store rejecting one operation --------
MaxReject == 1

NextReject ==
    \/ \E p \in Procs, actor \in Users, body \in SerialBodies,
          rejects \in StoreSteps \cup {"none"} :
          /\ issued < MaxReject
          /\ AllQuiet
          /\ StartCreateRejecting(p, actor, body, rejects)
    \/ \E p \in Procs : CreateStep(p)

SpecReject == InitSerial /\ [][NextReject]_vars

\* C34: when the first createTweet has been answered with an error, the tweets
\* are the ones stored before it: no tweet was added and no counter of the parent
\* or of the quoted tweet has changed.
C34_FailedCreateStoresNothing ==
    LET r == lastResponse IN
    (issued = 1 /\ AllQuiet /\ r.op = "createTweet" /\ r.status >= 400) =>
       tweets = [t \in TweetIds |-> IF t = 1 THEN SeedTweets[1] ELSE NullTweet]

\* ==== properties of the reads after a delete =========================================
\* ---- deletes and then a read, on a store with a tweet and a reply to it -----------
MaxList == 2

\* the tweet "#t" of user 1, liked by user 2, and the reply "#tu #t" of user 2 to
\* it, liked by user 1
ListSeed ==
    [t \in TweetIds |->
        IF t = 1
        THEN [NewTweet(1, <<"#", "t">>, 1, NoTweet, NoTweet, {})
                EXCEPT !.likes = {2}, !.engagementCount.likes = 1,
                       !.engagementCount.replies = 1]
        ELSE IF t = 2
        THEN [NewTweet(2, <<"#", "t", "u", " ", "#", "t">>, 2, NoTweet, 1, {})
                EXCEPT !.likes = {1}, !.engagementCount.likes = 1]
        ELSE NullTweet]

\* user 2 has bookmarked both tweets
InitList ==
    /\ users = [u \in Users |->
                  IF u = 2 THEN [NewUser EXCEPT !.bookmarks = {1, 2}] ELSE NewUser]
    /\ tweets = ListSeed
    /\ notifications = EmptyBag
    /\ reqs = [p \in Procs |-> IdleReq]
    /\ lastResponse = IdleReq
    /\ issued = 0
    /\ emitted = {}
    /\ faulty = FALSE
    /\ ServerStart

ListQueries == {q \in Queries({0, 2}, {0, 1}) : q.page = 0 <=> q.limit = 0}

ListTags == {<<"#", "t">>, <<"T">>, <<"t", "u">>}

SearchTexts == {<<>>, <<"t">>, <<"#", "T">>, <<"u">>}

\* a read changes nothing in the store: it is the last request of a behaviour
ListQuiet == AllQuiet /\ lastResponse.op \notin ListOps \cup ReadOps \cup ViewOps \cup {"search"}

NextList ==
    \/ \E p \in Procs, actor \in Users, id \in TweetIds :
          /\ issued + 1 < MaxList
          /\ ListQuiet
          /\ StartEngage(p, "deleteTweet", actor, id)
    \/ \E p \in Procs, op \in {"getUserTweets", "getUserReplies", "getUserLikedTweets"},
          username \in Users \cup {GhostUser}, query \in ListQueries :
          /\ issued < MaxList
          /\ ListQuiet
          /\ StartList(p, op, 1, username, <<>>, query)
    \/ \E p \in Procs, op \in {"getUserBookmarks", "getPopularTweets"}, actor \in Users,
          query \in ListQueries :
          /\ issued < MaxList
          /\ ListQuiet
          /\ StartList(p, op, actor, NoUser, <<>>, query)
    \/ \E p \in Procs, hashtag \in ListTags, query \in ListQueries :
          /\ issued < MaxList
          /\ ListQuiet
          /\ StartList(p, "getTweetsByHashtag", 1, NoUser, hashtag, query)
    \/ \E p \in Procs, q \in SearchTexts, type \in SearchTypes, query \in ListQueries :
          /\ issued < MaxList
          /\ ListQuiet
          /\ StartSearch(p, q, type, query)
    \/ \E p \in Procs, op \in ReadOps \cup ViewOps, actor \in Users, id \in TweetIds,
          query \in ListQueries :
          /\ issued < MaxList
          /\ ListQuiet
          /\ StartRead(p, op, actor, id, query)
    \/ \E p \in Procs : DeleteTweetFind(p) \/ DeleteTweetUpdate(p)
    \/ \E p \in Procs : ListFind(p) \/ ListRespond(p)
    \/ \E p \in Procs : SearchTweets(p) \/ SearchHashtags(p) \/ SearchRespond(p)
    \/ \E p \in Procs : ReadStep(p)
    \/ \E p \in Procs : GetTweetStep(p)

SpecList == InitList /\ [][NextList]_vars

\* C38: a read that comes after the deletes lists no deleted tweet: the timeline,
\* the replies of a thread, the tweets, replies and likes of a user, the
\* bookmarks, the popular tweets, the tweets of a hashtag and the tweets of a
\* text search hold live tweets only, and getTweet and getTweetThread of a
\* deleted tweet answer 404.
C38_DeletedTweetIsNotListed ==
    LET r == lastResponse IN
    AllQuiet =>
       /\ (r.op \in ListOps \cup ReadOps \cup {"search"} /\ r.status = 200) =>
             \A i \in 1..Len(r.result) : ~Tweet(r.result[i]).isDeleted
       /\ (r.op \in ViewOps /\ Tweet(r.id).isDeleted) => r.status = 404

\* the bookmarks of a user were listed after one of the bookmarked tweets was
\* deleted: the list holds the other one
C38_Witness ==
    LET r == lastResponse IN
    /\ AllQuiet
    /\ r.op = "getUserBookmarks"
    /\ r.status = 200
    /\ \E t \in users[r.actor].bookmarks : Tweet(t).isDeleted
    /\ Len(r.result) = 1

\* ==== properties of the hashtags of a search =========================================
\* the hashtags of the tweets that are not deleted
LiveHashtags ==
    UNION {Range(Tweet(t).hashtags) : t \in {u \in TweetIds : Tweet(u).exists /\ ~Tweet(u).isDeleted}}

\* C39: the hashtags an answered search of type hashtags or all returns are
\* hashtags of tweets that are not deleted, and the number of hashtags it counts
\* is the number of matching hashtags of such tweets.
C39_SearchHashtagsAreLive ==
    LET r == lastResponse IN
    (AllQuiet /\ r.op = "search" /\ r.status = 200 /\ r.type \in {"hashtags", "all"}) =>
       /\ Range(r.hashtags) \subseteq LiveHashtags
       /\ r.hashtagTotal =
             Cardinality({h \in LiveHashtags : MatchesRegex(h, WithoutHash(r.q))})

====
